---- MODULE Spec2Model ----
(***************************************************************************)
(* Model of sharad's dice resolution engine, shadowrun_dice_roll           *)
(* (src/src/utils.rs), as a state machine: one invocation, stepped through *)
(* its for loop, its inner reroll loop and its aggregate computation.      *)
(* The history variable faces records every face the random generator      *)
(* handed out, so that the returned counters can be compared with the      *)
(* faces that were really drawn.                                           *)
(*                                                                         *)
(* Around the engine, the conversation of src/src/assistant.rs: the turn   *)
(* loop of main_conversation_loop, create_and_wait_for_run, the background *)
(* image tasks, and the remote service that owns the thread and its runs.  *)
(***************************************************************************)
EXTENDS Integers, Sequences, FiniteSets, TLC

VARIABLES
    dice_number,        \* u8 parameter
    threshold,          \* u8 parameter
    overflow_checks,    \* build profile: TRUE = overflow panics, FALSE = wraps
    pc,                 \* "for" | "loop" | "done" | "panicked"
    rolled,             \* iterations of `for _ in 0..dice_number` started
    result,             \* i32 local: the face under examination (0: none)
    successes,          \* u8 local
    critical_successes, \* u8 local
    ones,               \* i32 local
    glitch,             \* RollResult.glitch
    critical_glitch,    \* RollResult.critical_glitch
    is_successful,      \* RollResult.is_successful
    faces,              \* history: the faces drawn so far, in order
    other,              \* a second invocation, suspended (or NoInvocation)
    interleaved,        \* history: both invocations were mid-run at a switch
    cpc,                \* control point of the conversation
    user_input,         \* the turn's input, a sequence of characters
    run,                \* the loop's `run` object
    iterations,         \* create_and_wait_for_run's counter
    tool_idx,           \* position of `for tool_call in ...`
    pending_tool_outputs, \* Arc<Mutex<Vec<ToolsOutputs>>>: the vector
    lock,               \* holder of the vector's mutex
    tasks,              \* the spawned image tasks
    log,                \* lines written to log_file
    outcome,            \* what the conversation returned
    session,            \* assistant_id and thread_id
    settings,           \* the loaded Settings
    turns,              \* inputs sent to the thread so far
    thread,             \* remote: the messages of the thread
    remote_run,         \* remote: the latest run of the thread
    submitted,          \* remote: the tool outputs received
    invoked,            \* history: the calls of shadowrun_dice_roll
    required,           \* history: every tool call the service required
    retrievals,         \* history: status retrievals of the current wait
    save_dir,           \* SAVE_DIR: whether it exists, and its files
    written,            \* history: the saves written, in order
    loaded,             \* the Save load_conversation_from_file returned
    threads_created,    \* remote: the threads created so far
    save_files,         \* load_conversation_from_file's save_files
    input,              \* load_conversation_from_file's input, as last read
    menus,              \* the arrow-key menus running, the innermost last
    key_event           \* history: the last key presses read by a menu

\* The state of the arrow-key menus.
arrowVars == <<menus, key_event>>

\* The parameters and locals of shadowrun_dice_roll.
engineVars == <<dice_number, threshold, pc, rolled, result, successes,
                critical_successes, ones, glitch, critical_glitch,
                is_successful, faces>>

\* The state of the conversation: the program's, the service's, the history.
conversationVars == <<cpc, user_input, run, iterations, tool_idx,
                      pending_tool_outputs, lock, tasks, log, outcome,
                      session, settings, turns, thread, remote_run,
                      submitted, invoked, required, retrievals>>

\* The state of the save directory and of the menu that starts games.
menuVars == <<save_dir, written, loaded, threads_created, save_files, input,
              arrowVars>>

vars == <<dice_number, threshold, overflow_checks, pc, rolled, result,
          successes, critical_successes, ones, glitch, critical_glitch,
          is_successful, faces, other, interleaved, cpc, user_input, run,
          iterations, tool_idx, pending_tool_outputs, lock, tasks, log,
          outcome, session, settings, turns, thread, remote_run, submitted,
          invoked, required, retrievals, save_dir, written, loaded,
          threads_created, save_files, input, arrowVars>>

(***************************************************************************)
(* Bounds of the model.                                                    *)
(***************************************************************************)
\* Spec: pools of 0..MaxDice dice, thresholds 0..MaxThreshold, at most
\* MaxSixes sixes handed out in one invocation.
MaxDice == 3
MaxThreshold == 2
MaxSixes == 2
\* SpecExample: the pool of five dice, at most ExampleSixes sixes.
ExampleSixes == 1
\* SpecWide: one die, whose chain may hold up to WideSixes sixes.
WideSixes == 257
\* SpecPair: two invocations, each handed at most PairSixes sixes.
PairSixes == 1
\* SpecTurn: at most MaxTurns inputs are sent to the thread, the service
\* requires at most TurnToolCalls tool calls, a roll is handed at most
\* TurnSixes sixes, and create_and_wait_for_run is followed through TurnPolls
\* sleeps.
MaxTurns == 1
TurnToolCalls == 1
TurnSixes == 1
TurnPolls == 2
\* SpecRounds: the service requires at most RoundsToolCalls tool calls.
RoundsToolCalls == 2
\* SpecWait: the service requires at most WaitToolCalls tool calls.
WaitToolCalls == 1
\* SpecSave: new games are started until MaxSaves threads exist.
MaxSaves == 2
\* SpecResumed: the service requires at most ResumedToolCalls tool calls.
ResumedToolCalls == 1
\* SpecTasks: the round holds at most TasksToolCalls tool calls.
TasksToolCalls == 2
\* SpecNewGame: at most NewGames new games are started.
NewGames == 1
\* SpecMenus: the chooser and the load-game menu list at most MaxEntries
\* cartridges or save files.
MaxEntries == 2

(***************************************************************************)
(* Constants of the program.                                               *)
(***************************************************************************)
\* let max_iterations = 100;
max_iterations == 100

(***************************************************************************)
(* 8-bit counters.                                                         *)
(***************************************************************************)
U8Modulus == 256

U8Max == U8Modulus - 1

\* The increment saturating at u8::MAX instead of wrapping.
U8IncSaturating(x) == IF x = U8Max THEN U8Max ELSE x + 1

\* x += 1 on a u8 when the build does not check overflow: two's complement wrap.
U8Inc(x) == (x + 1) % U8Modulus

\* x += 1 on a u8 panics in a build with overflow checks when x is u8::MAX.
U8IncOverflows(x) == x = U8Max

(***************************************************************************)
(* The random source: rng.gen_range(1..=6).                                *)
(***************************************************************************)
Faces == 1 .. 6

\* How many entries of the sequence s are the face f.
CountFace(s, f) == Cardinality({k \in 1 .. Len(s) : s[k] = f})

NumOnes(s) == CountFace(s, 1)

NumFives(s) == CountFace(s, 5)

NumSixes(s) == CountFace(s, 6)

\* A six opens a die's chain when the face drawn before it is not a six:
\* the number of dice that showed a six at least once.
DiceWithSix(s) ==
    Cardinality({k \in 1 .. Len(s) :
                    s[k] = 6 /\ (k = 1 \/ s[k - 1] # 6)})

\* The faces gen_range may return while at most cap sixes are handed out.
Drawable(cap) == IF NumSixes(faces) < cap THEN Faces ELSE Faces \ {6}

(***************************************************************************)
(* IEEE 754 binary32, as far as `ones as f32 / dice_number as f32 >= 0.5`  *)
(* needs it.  A finite non-zero value is m * 2^(e - 23) with               *)
(* 2^23 <= m < 2^24.                                                       *)
(***************************************************************************)
RECURSIVE Pow2(_)
Pow2(n) == IF n = 0 THEN 1 ELSE 2 * Pow2(n - 1)

RECURSIVE Log2Floor(_)
Log2Floor(n) == IF n < 2 THEN 0 ELSE 1 + Log2Floor(n \div 2)

F32NaN == [kind |-> "nan", m |-> 0, e |-> 0]

F32Inf == [kind |-> "inf", m |-> 0, e |-> 0]

F32Zero == [kind |-> "zero", m |-> 0, e |-> 0]

\* `n as f32` for 0 <= n < 2^24: exact.
F32FromInt(n) ==
    IF n = 0 THEN F32Zero
    ELSE LET p == Log2Floor(n)
         IN  [kind |-> "num", m |-> n * Pow2(23 - p), e |-> p]

RECURSIVE F32DivBits(_, _, _, _)
\* Long division: k more quotient bits of (q + r / d).
F32DivBits(q, r, d, k) ==
    IF k = 0 THEN [q |-> q, r |-> r]
    ELSE IF 2 * r >= d THEN F32DivBits(2 * q + 1, 2 * r - d, d, k - 1)
         ELSE F32DivBits(2 * q, 2 * r, d, k - 1)

\* x / y of two non-negative f32 values, rounded to nearest, ties to even.
F32Div(x, y) ==
    IF x.kind = "nan" \/ y.kind = "nan" THEN F32NaN
    ELSE IF y.kind = "zero"
         THEN (IF x.kind = "zero" THEN F32NaN ELSE F32Inf)
    ELSE IF x.kind = "zero" THEN F32Zero
    ELSE IF y.kind = "inf"
         THEN (IF x.kind = "inf" THEN F32NaN ELSE F32Zero)
    ELSE IF x.kind = "inf" THEN F32Inf
    ELSE LET small == x.m < y.m
             n     == IF small THEN 2 * x.m ELSE x.m
             e0    == IF small THEN x.e - y.e - 1 ELSE x.e - y.e
             qr    == F32DivBits(1, n - y.m, y.m, 23)
             up    == \/ 2 * qr.r > y.m
                      \/ (2 * qr.r = y.m /\ qr.q % 2 = 1)
             q     == IF up THEN qr.q + 1 ELSE qr.q
         IN  IF q = Pow2(24)
             THEN [kind |-> "num", m |-> Pow2(23), e |-> e0 + 1]
             ELSE [kind |-> "num", m |-> q, e |-> e0]

\* The comparison with NaN taken as true.
F32GeHalfNanTrue(x) ==
    \/ x.kind = "nan"
    \/ x.kind = "inf"
    \/ (x.kind = "num" /\ x.e >= -1)

\* x >= 0.5 for a non-negative f32 x; every comparison with NaN is false.
F32GeHalf(x) ==
    \/ x.kind = "inf"
    \/ (x.kind = "num" /\ x.e >= -1)

(***************************************************************************)
(* The aggregate computation.                                              *)
(***************************************************************************)
\* The ratio truncated as integers, which is >= 0.5 only from 1 upwards.
GlitchIntegerDivision(o, d) == d # 0 /\ o \div d >= 1

\* The comparison taken strictly: more than half.
GlitchAboveHalf(o, d) ==
    LET x == F32Div(F32FromInt(o), F32FromInt(d))
    IN  \/ x.kind = "inf"
        \/ (x.kind = "num" /\ (x.e >= 0 \/ (x.e = -1 /\ x.m > Pow2(23))))

\* let glitch = ones as f32 / dice_number as f32 >= 0.5;
Glitch(o, d) == F32GeHalf(F32Div(F32FromInt(o), F32FromInt(d)))

\* The glitch conjunct dropped.
CriticalGlitchIgnoresGlitch(g, s) == s = 0

\* let critical_glitch = glitch && successes == 0;
CriticalGlitch(g, s) == g /\ s = 0

\* The threshold taken strictly.
IsSuccessfulStrict(s, t) == s > t

\* let is_successful = successes >= threshold;
IsSuccessful(s, t) == s >= t

(***************************************************************************)
(* What lies outside one invocation.                                       *)
(***************************************************************************)
\* No second invocation exists.
NoInvocation == [pc |-> "none"]

\* No run: `runs.data.is_empty()`, or a `run` not yet assigned.
NoRun == [id |-> 0, status |-> "none", tool_calls |-> << >>]

\* Save { assistant_id, thread_id }: the identifiers of the session.
NoSession == [assistant_id |-> "none", thread_id |-> 0]

\* Settings before load_settings has read them.
\* No key press read yet.
NoKey == [code |-> "none", before |-> 0, previous |-> "none", origin |-> 0]

\* No arrow-key menu runs.
NoArrowMenu ==
    /\ menus = << >>
    /\ key_event = NoKey

NoSettings == [language |-> "none", audio_input_enabled |-> FALSE]

\* No conversation runs around the function.
NoConversation ==
    /\ cpc = "none"
    /\ user_input = << >>
    /\ run = NoRun
    /\ iterations = 0
    /\ tool_idx = 0
    /\ pending_tool_outputs = << >>
    /\ lock = "free"
    /\ tasks = << >>
    /\ log = << >>
    /\ outcome = "none"
    /\ session = NoSession
    /\ settings = NoSettings
    /\ turns = 0
    /\ thread = << >>
    /\ remote_run = NoRun
    /\ submitted = << >>
    /\ invoked = << >>
    /\ required = << >>
    /\ retrievals = 0
    /\ save_dir = [exists |-> FALSE, files |-> {}]
    /\ written = << >>
    /\ loaded = [some |-> FALSE, name |-> << >>, save |-> NoSession]
    /\ threads_created = 0
    /\ save_files = << >>
    /\ input = << >>
    /\ NoArrowMenu

\* The function is called on its own.
Standalone ==
    /\ other = NoInvocation
    /\ interleaved = FALSE
    /\ NoConversation

\* The roll leaving an entry in the pending tool-output vector.
RollFrameLeaky ==
    /\ pending_tool_outputs' = Append(pending_tool_outputs, faces)
    /\ UNCHANGED <<other, interleaved, cpc, user_input, run, iterations,
                   tool_idx, lock, tasks, log, outcome, session, settings,
                   turns, thread, remote_run, submitted, invoked, required,
                   retrievals, menuVars>>

\* The function reads and writes its parameters and locals only.
RollFrame == UNCHANGED <<other, interleaved, conversationVars, menuVars>>

(***************************************************************************)
(* The state after `let mut rng ...; let (mut successes, ...) = (0, 0, 0)` *)
(***************************************************************************)
Locals ==
    /\ pc = "for"
    /\ rolled = 0
    /\ result = 0
    /\ successes = 0
    /\ critical_successes = 0
    /\ ones = 0
    /\ glitch = FALSE
    /\ critical_glitch = FALSE
    /\ is_successful = FALSE
    /\ faces = << >>

Init ==
    /\ dice_number \in 0 .. MaxDice
    /\ threshold \in 0 .. MaxThreshold
    /\ overflow_checks \in BOOLEAN
    /\ Locals
    /\ Standalone

InitExample ==
    /\ dice_number = 5
    /\ threshold \in {2, 3}
    /\ overflow_checks \in BOOLEAN
    /\ Locals
    /\ Standalone

InitWide ==
    /\ dice_number = 1
    /\ threshold \in {0, 1}
    /\ overflow_checks \in BOOLEAN
    /\ Locals
    /\ Standalone

(***************************************************************************)
(* The steps of shadowrun_dice_roll.                                       *)
(***************************************************************************)
\* for _ in 0..dice_number { let mut result = rng.gen_range(1..=6);
RollDie(cap) ==
    /\ pc = "for"
    /\ rolled < dice_number
    /\ \E f \in Drawable(cap) :
          /\ result' = f
          /\ faces' = Append(faces, f)
    /\ rolled' = rolled + 1
    /\ pc' = "loop"
    /\ UNCHANGED <<dice_number, threshold, overflow_checks, successes,
                   critical_successes, ones, glitch, critical_glitch,
                   is_successful>>
    /\ RollFrame

\* if result == 1 { ones += 1; break; }
BranchOne ==
    /\ pc = "loop"
    /\ result = 1
    /\ ones' = ones + 1
    /\ pc' = "for"
    /\ UNCHANGED <<dice_number, threshold, overflow_checks, rolled, result,
                   successes, critical_successes, glitch, critical_glitch,
                   is_successful, faces>>
    /\ RollFrame

\* else if result == 6 { successes += 1; critical_successes += 1;
\*                       result = rng.gen_range(1..=6); }
BranchSix(cap) ==
    /\ pc = "loop"
    /\ result # 1
    /\ result = 6
    /\ IF overflow_checks /\ U8IncOverflows(successes)
       THEN /\ pc' = "panicked"
            /\ UNCHANGED <<successes, critical_successes, result, faces>>
       ELSE IF overflow_checks /\ U8IncOverflows(critical_successes)
       THEN /\ pc' = "panicked"
            /\ successes' = U8Inc(successes)
            /\ UNCHANGED <<critical_successes, result, faces>>
       ELSE /\ successes' = U8Inc(successes)
            /\ critical_successes' = U8Inc(critical_successes)
            /\ \E f \in Drawable(cap) :
                  /\ result' = f
                  /\ faces' = Append(faces, f)
            /\ pc' = "loop"
    /\ UNCHANGED <<dice_number, threshold, overflow_checks, rolled, ones,
                   glitch, critical_glitch, is_successful>>
    /\ RollFrame

\* The five taken as exploding too: a success, then a reroll.
BranchFiveRerolls ==
    /\ pc = "loop"
    /\ result = 5
    /\ successes' = U8Inc(successes)
    /\ \E f \in 1 .. 4 :
          /\ result' = f
          /\ faces' = Append(faces, f)
    /\ pc' = "loop"
    /\ UNCHANGED <<dice_number, threshold, overflow_checks, rolled,
                   critical_successes, ones, glitch, critical_glitch,
                   is_successful>>
    /\ RollFrame

\* else if result >= 5 { successes += 1; break; }
BranchFive ==
    /\ pc = "loop"
    /\ result # 1
    /\ result # 6
    /\ result >= 5
    /\ IF overflow_checks /\ U8IncOverflows(successes)
       THEN /\ pc' = "panicked"
            /\ UNCHANGED successes
       ELSE /\ successes' = U8Inc(successes)
            /\ pc' = "for"
    /\ UNCHANGED <<dice_number, threshold, overflow_checks, rolled, result,
                   critical_successes, ones, glitch, critical_glitch,
                   is_successful, faces>>
    /\ RollFrame

\* else { break; }
BranchLow ==
    /\ pc = "loop"
    /\ result # 1
    /\ result # 6
    /\ ~(result >= 5)
    /\ pc' = "for"
    /\ UNCHANGED <<dice_number, threshold, overflow_checks, rolled, result,
                   successes, critical_successes, ones, glitch,
                   critical_glitch, is_successful, faces>>
    /\ RollFrame

\* The loop is over: the three aggregates and the returned RollResult.
Aggregate ==
    /\ pc = "for"
    /\ rolled = dice_number
    /\ glitch' = Glitch(ones, dice_number)
    /\ critical_glitch' = CriticalGlitch(glitch', successes)
    /\ is_successful' = IsSuccessful(successes, threshold)
    /\ pc' = "done"
    /\ UNCHANGED <<dice_number, threshold, overflow_checks, rolled, result,
                   successes, critical_successes, ones, faces>>
    /\ RollFrame

Roll(cap) ==
    \/ RollDie(cap)
    \/ BranchOne
    \/ BranchSix(cap)
    \/ BranchFive
    \/ BranchLow
    \/ Aggregate

Next == Roll(MaxSixes)

NextExample == Roll(ExampleSixes)

NextWide == Roll(WideSixes)

Spec == Init /\ [][Next]_vars

SpecExample == InitExample /\ [][NextExample]_vars

SpecWide == InitWide /\ [][NextWide]_vars

\* The invocation has returned its RollResult.
Returned == pc = "done"

\* The RollResult of the running invocation.
RollResult ==
    [successes |-> successes, critical_successes |-> critical_successes,
     glitch |-> glitch, critical_glitch |-> critical_glitch,
     is_successful |-> is_successful]

(***************************************************************************)
(* The function as one computation over the faces it is handed, counters   *)
(* wrapping.                                                               *)
(***************************************************************************)
RECURSIVE Tally(_, _, _, _)
\* The three counters after the faces fs, from counters s, c, o.
Tally(fs, s, c, o) ==
    IF fs = << >> THEN [successes |-> s, critical_successes |-> c, ones |-> o]
    ELSE IF Head(fs) = 1 THEN Tally(Tail(fs), s, c, o + 1)
    ELSE IF Head(fs) = 6 THEN Tally(Tail(fs), U8Inc(s), U8Inc(c), o)
    ELSE IF Head(fs) >= 5 THEN Tally(Tail(fs), U8Inc(s), c, o)
    ELSE Tally(Tail(fs), s, c, o)

\* The RollResult of an invocation run alone on d dice against threshold t
\* that is handed the faces fs.
RollAlone(d, t, fs) ==
    LET n == Tally(fs, 0, 0, 0)
        g == Glitch(n.ones, d)
    IN  [successes |-> n.successes,
         critical_successes |-> n.critical_successes,
         glitch |-> g,
         critical_glitch |-> CriticalGlitch(g, n.successes),
         is_successful |-> IsSuccessful(n.successes, t)]

(***************************************************************************)
(* Two invocations.  Each has its own parameters, locals and face stream;  *)
(* one runs while the other is suspended, and Switch hands over at any     *)
(* step, which yields every interleaving of their steps.                   *)
(***************************************************************************)
\* The parameters, locals and result of the running invocation.
Context ==
    [dice_number |-> dice_number, threshold |-> threshold, pc |-> pc,
     rolled |-> rolled, result |-> result, successes |-> successes,
     critical_successes |-> critical_successes, ones |-> ones,
     glitch |-> glitch, critical_glitch |-> critical_glitch,
     is_successful |-> is_successful, faces |-> faces]

\* The RollResult of the suspended invocation.
OtherResult ==
    [successes |-> other.successes,
     critical_successes |-> other.critical_successes,
     glitch |-> other.glitch, critical_glitch |-> other.critical_glitch,
     is_successful |-> other.is_successful]

\* A fresh invocation on d dice against threshold t.
Fresh(d, t) ==
    [dice_number |-> d, threshold |-> t, pc |-> "for", rolled |-> 0,
     result |-> 0, successes |-> 0, critical_successes |-> 0, ones |-> 0,
     glitch |-> FALSE, critical_glitch |-> FALSE, is_successful |-> FALSE,
     faces |-> << >>]

\* One counter cell for all invocations: the resumed one sees the live value.
SuccessesShared(saved, live) == live

\* successes is a local (`let mut`): a resumed invocation sees its own value.
SuccessesOnResume(saved, live) == saved

MidRun(p) == p \in {"for", "loop"}

Switch ==
    /\ other # NoInvocation
    /\ other' = Context
    /\ dice_number' = other.dice_number
    /\ threshold' = other.threshold
    /\ pc' = other.pc
    /\ rolled' = other.rolled
    /\ result' = other.result
    /\ successes' = SuccessesOnResume(other.successes, successes)
    /\ critical_successes' = other.critical_successes
    /\ ones' = other.ones
    /\ glitch' = other.glitch
    /\ critical_glitch' = other.critical_glitch
    /\ is_successful' = other.is_successful
    /\ faces' = other.faces
    /\ interleaved' = (interleaved \/ (/\ MidRun(pc) /\ faces # << >>
                                       /\ MidRun(other.pc)
                                       /\ other.faces # << >>))
    /\ UNCHANGED <<overflow_checks, conversationVars, menuVars>>

InitPair ==
    /\ dice_number = 1
    /\ threshold = 1
    /\ overflow_checks \in BOOLEAN
    /\ Locals
    /\ \E d \in {1, 2}, t \in {1, 2} : other = Fresh(d, t)
    /\ interleaved = FALSE
    /\ NoConversation

NextPair ==
    \/ Roll(PairSixes)
    \/ Switch

SpecPair == InitPair /\ [][NextPair]_vars

TypeOK ==
    /\ dice_number \in 0 .. U8Max
    /\ threshold \in 0 .. U8Max
    /\ overflow_checks \in BOOLEAN
    /\ pc \in {"idle", "for", "loop", "done", "panicked"}
    /\ rolled \in 0 .. dice_number
    /\ result \in {0} \cup Faces
    /\ successes \in 0 .. U8Max
    /\ critical_successes \in 0 .. U8Max
    /\ ones \in 0 .. dice_number
    /\ glitch \in BOOLEAN
    /\ critical_glitch \in BOOLEAN
    /\ is_successful \in BOOLEAN
    /\ faces \in Seq(Faces)

(***************************************************************************)
(* Counts taken from the drawn faces.                                      *)
(***************************************************************************)
\* Faces 5 and 6 drawn, rerolls included.
NumSuccessFaces(s) == NumFives(s) + NumSixes(s)

(***************************************************************************)
(* Text: a string is the sequence of its characters.                       *)
(***************************************************************************)
Whitespace == {" ", "\n"}

RECURSIVE TrimStart(_)
TrimStart(s) ==
    IF s # << >> /\ Head(s) \in Whitespace THEN TrimStart(Tail(s)) ELSE s

RECURSIVE TrimEnd(_)
TrimEnd(s) ==
    IF s # << >> /\ s[Len(s)] \in Whitespace
    THEN TrimEnd(SubSeq(s, 1, Len(s) - 1))
    ELSE s

\* str::trim
Trim(s) == TrimEnd(TrimStart(s))

UpperCase ==
    <<"A", "B", "C", "D", "E", "F", "G", "H", "I", "J", "K", "L", "M",
      "N", "O", "P", "Q", "R", "S", "T", "U", "V", "W", "X", "Y", "Z">>

LowerCase ==
    <<"a", "b", "c", "d", "e", "f", "g", "h", "i", "j", "k", "l", "m",
      "n", "o", "p", "q", "r", "s", "t", "u", "v", "w", "x", "y", "z">>

ToAsciiLowercase(c) ==
    IF \E k \in 1 .. Len(UpperCase) : UpperCase[k] = c
    THEN LowerCase[CHOOSE k \in 1 .. Len(UpperCase) : UpperCase[k] = c]
    ELSE c

\* str::eq_ignore_ascii_case
EqIgnoreAsciiCase(a, b) ==
    /\ Len(a) = Len(b)
    /\ \A k \in 1 .. Len(a) : ToAsciiLowercase(a[k]) = ToAsciiLowercase(b[k])

ExitWord == <<"e", "x", "i", "t">>

\* The comparison taken literally: no trimming, no case folding.
IsExitExact(s) == s = ExitWord

\* user_input.trim().eq_ignore_ascii_case("exit")
IsExit(s) == EqIgnoreAsciiCase(Trim(s), ExitWord)

\* The input is empty, white space counting as input.
IsEmpty(s) == s = << >>

\* corrected_input.trim().is_empty()
IsBlank(s) == Trim(s) = << >>

\* What transcription and correction may hand to get_user_input.
RawInputs ==
    { << >>,
      <<" ">>,
      <<"e", "x", "i", "t">>,
      <<" ", "E", "x", "I", "t", "\n">>,
      <<"e", "x", "i", "t", " ", "n", "o", "w">> }

(***************************************************************************)
(* JSON values of a tool call's arguments, and the narrowing to u8.        *)
(***************************************************************************)
JsonNumber(n) == [kind |-> "number", n |-> n]

\* Value::Null, which indexing by an absent key yields too.
JsonNull == [kind |-> "null", n |-> 0]

\* An arguments string that parses, with its dice_number and threshold.
Arguments(d, t) == [valid |-> TRUE, dice_number |-> d, threshold |-> t]

\* An arguments string serde_json::from_str rejects.
InvalidJson == [valid |-> FALSE, dice_number |-> JsonNull,
                threshold |-> JsonNull]

\* An arguments object without the two keys.
ObjectArguments == Arguments(JsonNull, JsonNull)

None == [some |-> FALSE, n |-> 0]

Some(n) == [some |-> TRUE, n |-> n]

\* Value::as_u64: Some for a non-negative integer, None otherwise.
AsU64(v) == IF v.kind = "number" /\ v.n >= 0 THEN Some(v.n) ELSE None

\* Option::unwrap_or
UnwrapOr(o, d) == IF o.some THEN o.n ELSE d

\* `as u8` of a u64: the low 8 bits.
AsU8(n) == n % U8Modulus

\* args[key].as_u64().unwrap_or(0) as u8
ArgumentU8(v) == AsU8(UnwrapOr(AsU64(v), 0))

\* The arguments the service may send with a roll_dice call.
RollArguments ==
    { Arguments(JsonNumber(1), JsonNumber(1)),
      Arguments(JsonNumber(U8Modulus), JsonNumber(U8Modulus + 1)),
      Arguments(JsonNull, JsonNumber(-1)),
      InvalidJson }

\* The tool calls the service may require.
ToolCallChoices ==
    [name : {"roll_dice"}, arguments : RollArguments]
    \cup [name : {"generate_character_image"},
          arguments : {ObjectArguments, InvalidJson}]
    \cup [name : {"other_tool"}, arguments : {ObjectArguments}]

\* A tool output that is plain text.
Text(s) == [text |-> s, json |-> << >>]

\* A tool output that is a JSON object: its fields in order.
Json(fields) == [text |-> "", json |-> fields]

\* serde_json::to_string of a RollResult (#[derive(Serialize)]).
ToJsonString(r) ==
    << <<"successes", r.successes>>,
       <<"critical_successes", r.critical_successes>>,
       <<"glitch", r.glitch>>,
       <<"critical_glitch", r.critical_glitch>>,
       <<"is_successful", r.is_successful>> >>

\* The RollResult of a call that has not returned.
NoResult ==
    [successes |-> 0, critical_successes |-> 0, glitch |-> FALSE,
     critical_glitch |-> FALSE, is_successful |-> FALSE]

(***************************************************************************)
(* Messages, log lines, errors.                                            *)
(***************************************************************************)
NoMessage == [role |-> "none", turn |-> 0, json |-> FALSE]

\* The message send_user_message posts: a serialized JSON object.
UserMessage(n) == [role |-> "user", turn |-> n, json |-> TRUE]

\* A message of the assistant; json tells whether its text parses as JSON.
AssistantMessage(n, j) == [role |-> "assistant", turn |-> n, json |-> j]

\* log_and_display_message: "[timestamp] sender: message".
LogLine(sender, m) == [line |-> "message", sender |-> sender, message |-> m]

\* writeln!(log_file, "Conversation ended.")
EndedLine ==
    [line |-> "Conversation ended.", sender |-> "", message |-> NoMessage]

\* An error of the remote API or of the audio pipeline, passed on by `?`.
ApiError == "api error"

\* A serde_json error, passed on by `?`.
JsonError == "json error"

RunFailed == "Run failed"

RunExceeded == "Run exceeded maximum iterations"

NoMessageFound == "No message found"

(***************************************************************************)
(* main_conversation_loop is entered: a new game whose first run completed *)
(* and whose opening message was logged by handle_new_game.                *)
(***************************************************************************)
\* No invocation of shadowrun_dice_roll is in progress.
IdleEngine ==
    /\ pc = "idle"
    /\ dice_number = 0
    /\ threshold = 0
    /\ rolled = 0
    /\ result = 0
    /\ successes = 0
    /\ critical_successes = 0
    /\ ones = 0
    /\ glitch = FALSE
    /\ critical_glitch = FALSE
    /\ is_successful = FALSE
    /\ faces = << >>

\* The session of the first new game: its assistant, the first thread.
FirstSession == [assistant_id |-> "asst_1", thread_id |-> 1]

\* run_conversation has created the thread and saved the session, under
\* the name "a".
SavedNewGame ==
    /\ save_dir =
          [exists |-> TRUE,
           files |-> {[file |-> <<"a", ".", "j", "s", "o", "n">>,
                       data |-> << <<"assistant_id", "asst_1">>,
                                   <<"thread_id", 1>> >>]}]
    /\ written = <<[name |-> <<"a">>, save |-> FirstSession]>>
    /\ loaded = [some |-> FALSE, name |-> << >>,
                 save |-> [assistant_id |-> "none", thread_id |-> 0]]
    /\ threads_created = 1
    /\ save_files = << >>
    /\ input = << >>
    /\ NoArrowMenu

InitTurn ==
    /\ IdleEngine
    /\ overflow_checks \in BOOLEAN
    /\ other = NoInvocation
    /\ interleaved = FALSE
    /\ cpc = "input"
    /\ user_input = << >>
    /\ run = NoRun
    /\ iterations = 0
    /\ tool_idx = 0
    /\ pending_tool_outputs = << >>
    /\ lock = "free"
    /\ tasks = << >>
    /\ log = <<LogLine("Game Master's initial message",
                       AssistantMessage(0, TRUE))>>
    /\ outcome = "running"
    /\ session = FirstSession
    /\ settings = [language |-> "English", audio_input_enabled |-> TRUE]
    /\ turns = 0
    /\ thread = <<UserMessage(0), AssistantMessage(0, TRUE)>>
    /\ remote_run = [id |-> 1, status |-> "completed", tool_calls |-> << >>]
    /\ submitted = << >>
    /\ invoked = << >>
    /\ required = << >>
    /\ retrievals = 0
    /\ SavedNewGame

\* What no step of the conversation itself touches: the engine's variables
\* outside a roll, the build profile, the second invocation, the save
\* directory and the menu.
engineAndPair == <<engineVars, overflow_checks, other, interleaved, menuVars>>

(***************************************************************************)
(* The turn: input, exit check, message, run.                              *)
(***************************************************************************)
\* let user_input = get_user_input(display).await?;
GetUserInput ==
    /\ cpc = "input"
    /\ \/ \E r \in RawInputs :
             /\ IsExit(r) \/ IsBlank(r) \/ turns < MaxTurns
             /\ IF IsBlank(r)
                THEN UNCHANGED <<cpc, user_input, arrowVars>>
                ELSE /\ user_input' = r
                     /\ cpc' = "got_input"
             /\ UNCHANGED outcome
       \/ /\ cpc' = "returned"
          /\ outcome' = ApiError
          /\ UNCHANGED user_input
    /\ UNCHANGED <<engineAndPair, run, iterations, tool_idx,
                   pending_tool_outputs, lock, tasks, log, session, settings,
                   turns, thread, remote_run, submitted, invoked, required,
                   retrievals>>

\* if user_input.trim().eq_ignore_ascii_case("exit") { break; }
\* ... send_user_message(client, thread_id, &user_prompt).await?;
ExitOrSend ==
    /\ cpc = "got_input"
    /\ IF IsExit(user_input)
       THEN /\ cpc' = "break"
            /\ UNCHANGED <<thread, turns, outcome>>
       ELSE \/ /\ thread' = Append(thread, UserMessage(turns + 1))
               /\ turns' = turns + 1
               /\ cpc' = "no_active"
               /\ UNCHANGED outcome
            \/ /\ cpc' = "returned"
               /\ outcome' = ApiError
               /\ UNCHANGED <<thread, turns>>
    /\ UNCHANGED <<engineAndPair, user_input, run, iterations, tool_idx,
                   pending_tool_outputs, lock, tasks, log, session, settings,
                   remote_run, submitted, invoked, required, retrievals>>

\* The loop is left unless the latest run is in progress.
NotInProgress(r) == r = NoRun \/ r.status # "in_progress"

\* runs.data.is_empty() || runs.data[0].status == RunStatus::Completed
NoActiveRun(r) == r = NoRun \/ r.status = "completed"

\* loop { let runs = ...list(&[("limit", "1")]).await?;
\*        if runs.data.is_empty() || status == Completed { break; } sleep }
CheckNoActiveRun ==
    /\ cpc = "no_active"
    /\ \/ /\ IF NoActiveRun(remote_run)
             THEN cpc' = "create"
             ELSE UNCHANGED cpc
          /\ UNCHANGED outcome
       \/ /\ cpc' = "returned"
          /\ outcome' = ApiError
    /\ UNCHANGED <<engineAndPair, user_input, run, iterations, tool_idx,
                   pending_tool_outputs, lock, tasks, log, session, settings,
                   turns, thread, remote_run, submitted, invoked, required,
                   retrievals>>

(***************************************************************************)
(* create_and_wait_for_run.                                                *)
(***************************************************************************)
\* let run = client.threads().runs(thread_id).create(...).await?;
\* let mut iterations = 0;
CreateRun ==
    /\ cpc = "create"
    /\ \/ /\ remote_run' = [id |-> remote_run.id + 1, status |-> "queued",
                            tool_calls |-> << >>]
          /\ run' = remote_run'
          /\ iterations' = 0
          /\ retrievals' = 0
          /\ cpc' = "poll"
          /\ UNCHANGED outcome
       \/ /\ cpc' = "returned"
          /\ outcome' = ApiError
          /\ UNCHANGED <<remote_run, run, iterations, retrievals>>
    /\ UNCHANGED <<engineAndPair, user_input, tool_idx, pending_tool_outputs,
                   lock, tasks, log, session, settings, turns, thread,
                   submitted, invoked, required>>

\* The cap taken one iteration early.
IterationsExceededEarly(i) == i >= max_iterations

\* A queued run ends the wait as well.
ReturnsRunOrQueued(status) ==
    status \in {"completed", "requires_action", "queued"}

\* RunStatus::Completed | RunStatus::RequiresAction => { run = run_status;
\* break; }
ReturnsRun(status) == status \in {"completed", "requires_action"}

\* if iterations > max_iterations
IterationsExceeded(i) == i > max_iterations

\* One pass of the loop: iterations += 1; the cap; retrieve; match status.
\* The sleep branch is explored while iterations is at most cap.
Poll(cap) ==
    /\ cpc = "poll"
    /\ LET i == iterations + 1
       IN  IF IterationsExceeded(i)
           THEN /\ iterations' = i
                /\ cpc' = "returned"
                /\ outcome' = RunExceeded
                /\ UNCHANGED <<run, tool_idx, retrievals>>
           ELSE /\ retrievals' = retrievals + 1
                /\ \/ /\ ReturnsRun(remote_run.status)
                      /\ run' = remote_run
                      /\ iterations' = 0
                      /\ tool_idx' = 1
                      /\ cpc' = "tools"
                      /\ UNCHANGED outcome
                   \/ /\ remote_run.status = "failed"
                      /\ iterations' = i
                      /\ cpc' = "returned"
                      /\ outcome' = RunFailed
                      /\ UNCHANGED <<run, tool_idx>>
                   \/ /\ remote_run.status \notin
                            {"completed", "requires_action", "failed"}
                      /\ i <= cap
                      /\ iterations' = i
                      /\ UNCHANGED <<cpc, outcome, run, tool_idx>>
                   \/ /\ iterations' = i
                      /\ cpc' = "returned"
                      /\ outcome' = ApiError
                      /\ UNCHANGED <<run, tool_idx>>
    /\ UNCHANGED <<engineAndPair, user_input, pending_tool_outputs, lock,
                   tasks, log, session, settings, turns, thread, remote_run,
                   submitted, invoked, required>>

(***************************************************************************)
(* The tool calls of the run's required action.                            *)
(***************************************************************************)
\* if let Some(required_action) = &run.required_action: a run carries one
\* exactly while its status is requires_action.
HasToolCall ==
    /\ cpc = "tools"
    /\ run.status = "requires_action"
    /\ tool_idx <= Len(run.tool_calls)

\* for tool_call in &required_action.submit_tool_outputs.tool_calls
ToolCall == run.tool_calls[tool_idx]

\* The for loop is over, or there was no required action.
ToolsDone ==
    /\ cpc = "tools"
    /\ ~HasToolCall
    /\ cpc' = "wait"
    /\ UNCHANGED <<engineAndPair, user_input, run, iterations, tool_idx,
                   pending_tool_outputs, lock, tasks, log, outcome, session,
                   settings, turns, thread, remote_run, submitted, invoked,
                   required, retrievals>>

\* if tool_call.function.name == "roll_dice" { let args = from_str(..)?;
\*   let dice_number = ... as u8; let threshold = ... as u8;
\*   let roll_result = shadowrun_dice_roll(dice_number, threshold);
\* up to the entry of the function.
ToolCallRollDice ==
    /\ HasToolCall
    /\ ToolCall.name = "roll_dice"
    /\ IF ~ToolCall.arguments.valid
       THEN /\ cpc' = "returned"
            /\ outcome' = JsonError
            /\ UNCHANGED <<engineVars, invoked>>
       ELSE /\ dice_number' = ArgumentU8(ToolCall.arguments.dice_number)
            /\ threshold' = ArgumentU8(ToolCall.arguments.threshold)
            /\ pc' = "for"
            /\ rolled' = 0
            /\ result' = 0
            /\ successes' = 0
            /\ critical_successes' = 0
            /\ ones' = 0
            /\ glitch' = FALSE
            /\ critical_glitch' = FALSE
            /\ is_successful' = FALSE
            /\ faces' = << >>
            /\ invoked' = Append(invoked,
                  [tool_call_id |-> ToolCall.id,
                   arguments |-> ToolCall.arguments,
                   dice_number |-> dice_number',
                   threshold |-> threshold',
                   returned |-> FALSE,
                   result |-> NoResult])
            /\ cpc' = "rolling"
            /\ UNCHANGED outcome
    /\ UNCHANGED <<overflow_checks, other, interleaved, menuVars,
                   user_input, run, iterations, tool_idx,
                   pending_tool_outputs, lock, tasks, log, session, settings,
                   turns, thread, remote_run, submitted, required,
                   retrievals>>

\* The function has returned (or panicked, which ends the program):
\*   let tool_output = serde_json::to_string(&roll_result)?;
\*   let mut outputs = pending_tool_outputs_clone.lock().await;
\*   outputs.push(ToolsOutputs { tool_call_id, output });
\* and the submission request leaves, the mutex still held.
RollDiceOutput ==
    /\ cpc = "rolling"
    /\ pc \in {"done", "panicked"}
    /\ IF pc = "panicked"
       THEN /\ cpc' = "aborted"
            /\ outcome' = "panic"
            /\ UNCHANGED <<engineVars, pending_tool_outputs, lock, invoked>>
       ELSE /\ lock = "free"
            /\ lock' = "loop"
            /\ pending_tool_outputs' = Append(pending_tool_outputs,
                  [tool_call_id |-> ToolCall.id,
                   output |-> Json(ToJsonString(RollResult))])
            /\ invoked' = [invoked EXCEPT ![Len(invoked)] =
                              [@ EXCEPT !.returned = TRUE,
                                        !.result = RollResult]]
            /\ pc' = "idle"
            /\ dice_number' = 0
            /\ threshold' = 0
            /\ rolled' = 0
            /\ result' = 0
            /\ successes' = 0
            /\ critical_successes' = 0
            /\ ones' = 0
            /\ glitch' = FALSE
            /\ critical_glitch' = FALSE
            /\ is_successful' = FALSE
            /\ faces' = << >>
            /\ cpc' = "submitting"
            /\ UNCHANGED outcome
    /\ UNCHANGED <<overflow_checks, other, interleaved, menuVars,
                   user_input, run, iterations, tool_idx, tasks, log,
                   session, settings, turns, thread, remote_run, submitted,
                   required, retrievals>>

\* The service accepts tool outputs for a run that requires action.
AcceptsOutputs(id) ==
    /\ remote_run.id = id
    /\ remote_run.status = "requires_action"

\* client.threads().runs(thread_id)
\*     .submit_tool_outputs(&run.id, submit_request).await?;
\* answers; the mutex guard is dropped at the end of the block.
RollDiceSubmitted ==
    /\ cpc = "submitting"
    /\ lock' = "free"
    /\ \/ /\ AcceptsOutputs(run.id)
          /\ submitted' = Append(submitted,
                [run_id |-> run.id,
                 tool_call_id |-> ToolCall.id,
                 output |-> Json(ToJsonString(invoked[Len(invoked)].result))])
          /\ tool_idx' = tool_idx + 1
          /\ cpc' = "tools"
          /\ UNCHANGED outcome
       \/ /\ cpc' = "returned"
          /\ outcome' = ApiError
          /\ UNCHANGED <<submitted, tool_idx>>
    /\ UNCHANGED <<engineAndPair, user_input, run, iterations,
                   pending_tool_outputs, tasks, log, session, settings,
                   turns, thread, remote_run, invoked, required, retrievals>>

\* if tool_call.function.name == "generate_character_image" {
\*   let args = from_str(..)?; ... spawn(async move { ... });
\* and the placeholder submission request leaves.
ToolCallImage ==
    /\ HasToolCall
    /\ ToolCall.name = "generate_character_image"
    /\ IF ~ToolCall.arguments.valid
       THEN /\ cpc' = "returned"
            /\ outcome' = JsonError
            /\ UNCHANGED tasks
       ELSE /\ tasks' = Append(tasks, [tool_call_id |-> ToolCall.id,
                                       state |-> "generating"])
            /\ cpc' = "submitting_dummy"
            /\ UNCHANGED outcome
    /\ UNCHANGED <<engineAndPair, user_input, run, iterations, tool_idx,
                   pending_tool_outputs, lock, log, session, settings, turns,
                   thread, remote_run, submitted, invoked, required,
                   retrievals>>

\* .submit_tool_outputs(&run.id, dummy_submit_request).await?; answers.
ImageDummySubmitted ==
    /\ cpc = "submitting_dummy"
    /\ \/ /\ AcceptsOutputs(run.id)
          /\ submitted' = Append(submitted,
                [run_id |-> run.id,
                 tool_call_id |-> ToolCall.id,
                 output |-> Text("Tool started")])
          /\ tool_idx' = tool_idx + 1
          /\ cpc' = "tools"
          /\ UNCHANGED outcome
       \/ /\ cpc' = "returned"
          /\ outcome' = ApiError
          /\ UNCHANGED <<submitted, tool_idx>>
    /\ UNCHANGED <<engineAndPair, user_input, run, iterations,
                   pending_tool_outputs, lock, tasks, log, session, settings,
                   turns, thread, remote_run, invoked, required, retrievals>>

\* A tool call of any other name: neither `if` matches.
ToolCallOther ==
    /\ HasToolCall
    /\ ToolCall.name \notin {"roll_dice", "generate_character_image"}
    /\ tool_idx' = tool_idx + 1
    /\ UNCHANGED <<engineAndPair, cpc, user_input, run, iterations,
                   pending_tool_outputs, lock, tasks, log, outcome, session,
                   settings, turns, thread, remote_run, submitted, invoked,
                   required, retrievals>>

(***************************************************************************)
(* The end of the turn.                                                    *)
(***************************************************************************)
\* loop { let run_status = ...retrieve(&run.id).await?; match status {
\*   Completed => break, Failed => return Err, RequiresAction => break,
\*   _ => sleep } }
WaitPoll ==
    /\ cpc = "wait"
    /\ \/ /\ remote_run.status \in {"completed", "requires_action"}
          /\ cpc' = "latest"
          /\ UNCHANGED outcome
       \/ /\ remote_run.status = "failed"
          /\ cpc' = "returned"
          /\ outcome' = RunFailed
       \/ /\ remote_run.status \notin
                {"completed", "requires_action", "failed"}
          /\ UNCHANGED <<cpc, outcome>>
       \/ /\ cpc' = "returned"
          /\ outcome' = ApiError
    /\ UNCHANGED <<engineAndPair, user_input, run, iterations, tool_idx,
                   pending_tool_outputs, lock, tasks, log, session, settings,
                   turns, thread, remote_run, submitted, invoked, required,
                   retrievals>>

\* let response_text = get_latest_message(client, thread_id).await?;
\* log_and_display_message(log_file, &response_text, "Game Master", ..)?;
\* let json_response: Value = serde_json::from_str(&response_text)?;
\* ... generate_and_play_audio(..).await?;
GetLatestMessage ==
    /\ cpc = "latest"
    /\ \/ /\ thread = << >>
          /\ cpc' = "returned"
          /\ outcome' = NoMessageFound
          /\ UNCHANGED log
       \/ /\ thread # << >>
          /\ log' = Append(log, LogLine("Game Master", thread[Len(thread)]))
          /\ IF thread[Len(thread)].json
             THEN \/ /\ cpc' = "input"
                     /\ UNCHANGED outcome
                  \/ /\ cpc' = "returned"
                     /\ outcome' = ApiError
             ELSE /\ cpc' = "returned"
                  /\ outcome' = JsonError
       \/ /\ cpc' = "returned"
          /\ outcome' = ApiError
          /\ UNCHANGED log
    /\ UNCHANGED <<engineAndPair, user_input, run, iterations, tool_idx,
                   pending_tool_outputs, lock, tasks, session, settings,
                   turns, thread, remote_run, submitted, invoked, required,
                   retrievals>>

\* run_conversation_with_save after the loop returned Ok(()):
\* print_footer; writeln!(log_file, "Conversation ended.")?; Ok(final_state)
\* The log file, opened by the caller, is taken to accept the write.
ConversationEnd ==
    /\ cpc = "break"
    /\ log' = Append(log, EndedLine)
    /\ outcome' = "Ok"
    /\ cpc' = "returned"
    /\ UNCHANGED <<engineAndPair, user_input, run, iterations, tool_idx,
                   pending_tool_outputs, lock, tasks, session, settings,
                   turns, thread, remote_run, submitted, invoked, required,
                   retrievals>>

(***************************************************************************)
(* The remote service: the life of the thread's latest run.                *)
(***************************************************************************)
\* The conversation has not returned: the service and the tasks are
\* followed until it does.
Running == cpc \notin {"returned", "aborted"}

\* What only the program changes.
programVars == <<engineAndPair, cpc, user_input, run, iterations, tool_idx,
                 pending_tool_outputs, lock, tasks, log, outcome, session,
                 settings, turns, submitted, invoked, retrievals>>

ServiceStart ==
    /\ Running
    /\ remote_run.status = "queued"
    /\ remote_run' = [remote_run EXCEPT !.status = "in_progress"]
    /\ UNCHANGED <<programVars, thread, required>>

\* The run completes: the assistant's message is on the thread.
ServiceComplete ==
    /\ Running
    /\ remote_run.status = "in_progress"
    /\ remote_run' = [remote_run EXCEPT !.status = "completed",
                                        !.tool_calls = << >>]
    /\ \E j \in BOOLEAN : thread' = Append(thread, AssistantMessage(turns, j))
    /\ UNCHANGED <<programVars, required>>

ServiceFail ==
    /\ Running
    /\ remote_run.status = "in_progress"
    /\ remote_run' = [remote_run EXCEPT !.status = "failed",
                                        !.tool_calls = << >>]
    /\ UNCHANGED <<programVars, thread, required>>

\* The run requires action: a round of tool calls, at most maxCalls over
\* the conversation.
ServiceRequire(maxCalls) ==
    /\ Running
    /\ remote_run.status = "in_progress"
    /\ \E n \in 1 .. (maxCalls - Len(required)) :
          \E cs \in [1 .. n -> ToolCallChoices] :
             LET calls == [k \in 1 .. n |->
                              [id |-> Len(required) + k,
                               name |-> cs[k].name,
                               arguments |-> cs[k].arguments]]
             IN  /\ remote_run' = [remote_run EXCEPT
                                      !.status = "requires_action",
                                      !.tool_calls = calls]
                 /\ required' = required \o
                       [k \in 1 .. n |->
                           [run_id |-> remote_run.id,
                            id |-> calls[k].id,
                            name |-> calls[k].name]]
    /\ UNCHANGED <<programVars, thread>>

\* Every tool call of the round has an output: the run goes on.
ServiceResume ==
    /\ Running
    /\ remote_run.status = "requires_action"
    /\ \A k \in 1 .. Len(remote_run.tool_calls) :
          \E j \in 1 .. Len(submitted) :
             /\ submitted[j].run_id = remote_run.id
             /\ submitted[j].tool_call_id = remote_run.tool_calls[k].id
    /\ remote_run' = [remote_run EXCEPT !.status = "in_progress",
                                        !.tool_calls = << >>]
    /\ UNCHANGED <<programVars, thread, required>>

\* The run is cancelled through the API, or expires.
ServiceStop ==
    /\ Running
    /\ remote_run.status \in {"queued", "in_progress", "requires_action"}
    /\ \E s \in {"cancelled", "expired"} :
          remote_run' = [remote_run EXCEPT !.status = s,
                                           !.tool_calls = << >>]
    /\ UNCHANGED <<programVars, thread, required>>

(***************************************************************************)
(* The background image tasks.                                             *)
(***************************************************************************)
\* The spawned tasks outlive the conversation that spawned them; they end
\* with the process, when the conversation panics.
TasksAlive == cpc # "aborted"

\* The mutex is taken whether it is held or not.
LockNever == TRUE

\* pending_tool_outputs.lock().await completes: nobody holds the mutex.
LockFree == lock = "free"

\* match generate_character_image(character_info).await { Ok(..) | Err(..) }
TaskGenerated(i) ==
    /\ TasksAlive
    /\ tasks[i].state = "generating"
    /\ \E r \in {"ok", "err"} : tasks' = [tasks EXCEPT ![i].state = r]
    /\ UNCHANGED <<engineAndPair, cpc, user_input, run, iterations, tool_idx,
                   pending_tool_outputs, lock, log, outcome, session,
                   settings, turns, thread, remote_run, submitted, invoked,
                   required, retrievals>>

\* let mut outputs = pending_tool_outputs_clone.lock().await;
\* outputs.push(ToolsOutputs { tool_call_id, output });
TaskPush(i) ==
    /\ TasksAlive
    /\ tasks[i].state \in {"ok", "err"}
    /\ LockFree
    /\ pending_tool_outputs' = Append(pending_tool_outputs,
          [tool_call_id |-> tasks[i].tool_call_id,
           output |-> IF tasks[i].state = "ok"
                      THEN Text("image_path")
                      ELSE Text("Failed to generate image")])
    /\ tasks' = [tasks EXCEPT ![i].state = "finished"]
    /\ UNCHANGED <<engineAndPair, cpc, user_input, run, iterations, tool_idx,
                   lock, log, outcome, session, settings, turns, thread,
                   remote_run, submitted, invoked, required, retrievals>>

ImageTask == \E i \in 1 .. Len(tasks) : TaskGenerated(i) \/ TaskPush(i)

(***************************************************************************)
(* The conversation from the entry of main_conversation_loop.              *)
(***************************************************************************)
NextTurn ==
    \/ GetUserInput
    \/ ExitOrSend
    \/ CheckNoActiveRun
    \/ CreateRun
    \/ Poll(TurnPolls)
    \/ ToolsDone
    \/ ToolCallRollDice
    \/ Roll(TurnSixes)
    \/ RollDiceOutput
    \/ RollDiceSubmitted
    \/ ToolCallImage
    \/ ImageDummySubmitted
    \/ ToolCallOther
    \/ WaitPoll
    \/ GetLatestMessage
    \/ ConversationEnd
    \/ ServiceStart
    \/ ServiceComplete
    \/ ServiceFail
    \/ ServiceRequire(TurnToolCalls)
    \/ ServiceResume
    \/ ServiceStop
    \/ ImageTask

SpecTurn == InitTurn /\ [][NextTurn]_vars

(***************************************************************************)
(* The first turn from the creation of its run to the logging of the       *)
(* reply, the service free to require several rounds of tool calls; and    *)
(* create_and_wait_for_run on its own, the service free to report any      *)
(* status for as long as it likes.                                         *)
(***************************************************************************)
InitWait ==
    /\ IdleEngine
    /\ overflow_checks \in BOOLEAN
    /\ other = NoInvocation
    /\ interleaved = FALSE
    /\ cpc = "create"
    /\ user_input = <<"e", "x", "i", "t", " ", "n", "o", "w">>
    /\ run = NoRun
    /\ iterations = 0
    /\ tool_idx = 0
    /\ pending_tool_outputs = << >>
    /\ lock = "free"
    /\ tasks = << >>
    /\ log = <<LogLine("Game Master's initial message",
                       AssistantMessage(0, TRUE))>>
    /\ outcome = "running"
    /\ session = FirstSession
    /\ settings = [language |-> "English", audio_input_enabled |-> TRUE]
    /\ turns = 1
    /\ thread = <<UserMessage(0), AssistantMessage(0, TRUE), UserMessage(1)>>
    /\ remote_run = [id |-> 1, status |-> "completed", tool_calls |-> << >>]
    /\ submitted = << >>
    /\ invoked = << >>
    /\ required = << >>
    /\ retrievals = 0
    /\ SavedNewGame

NextWait ==
    \/ CreateRun
    \/ Poll(max_iterations)
    \/ ServiceStart
    \/ ServiceComplete
    \/ ServiceFail
    \/ ServiceRequire(WaitToolCalls)
    \/ ServiceStop

SpecWait == InitWait /\ [][NextWait]_vars

\* The task that awaits create_and_wait_for_run is resumed whenever the call
\* or the sleep it awaits is over: its next step is eventually taken.
FairSpecWait ==
    SpecWait /\ WF_vars(CreateRun) /\ WF_vars(Poll(max_iterations))

NextRounds ==
    \/ CreateRun
    \/ Poll(TurnPolls)
    \/ ToolsDone
    \/ ToolCallRollDice
    \/ Roll(TurnSixes)
    \/ RollDiceOutput
    \/ RollDiceSubmitted
    \/ ToolCallImage
    \/ ImageDummySubmitted
    \/ ToolCallOther
    \/ WaitPoll
    \/ GetLatestMessage
    \/ ServiceStart
    \/ ServiceComplete
    \/ ServiceFail
    \/ ServiceRequire(RoundsToolCalls)
    \/ ServiceResume
    \/ ServiceStop
    \/ ImageTask

SpecRounds == InitWait /\ [][NextRounds]_vars

\* The task that runs the loop is resumed whenever the retrieval or the
\* sleep it awaits is over: a pass of the wait loop whose retrieval answers
\* is eventually taken. That the retrieval fails is never forced.
FairSpecRounds == SpecRounds /\ WF_vars(WaitPoll /\ outcome' # ApiError)

(***************************************************************************)
(* The tool calls of one round and the tasks they spawn, from the return   *)
(* of create_and_wait_for_run with a run that requires action.             *)
(***************************************************************************)
InitTasks ==
    /\ IdleEngine
    /\ overflow_checks = FALSE
    /\ other = NoInvocation
    /\ interleaved = FALSE
    /\ cpc = "tools"
    /\ user_input = <<"e", "x", "i", "t", " ", "n", "o", "w">>
    /\ iterations = 0
    /\ tool_idx = 1
    /\ pending_tool_outputs = << >>
    /\ lock = "free"
    /\ tasks = << >>
    /\ log = <<LogLine("Game Master's initial message",
                       AssistantMessage(0, TRUE))>>
    /\ outcome = "running"
    /\ session = FirstSession
    /\ settings = [language |-> "English", audio_input_enabled |-> TRUE]
    /\ turns = 1
    /\ thread = <<UserMessage(0), AssistantMessage(0, TRUE), UserMessage(1)>>
    /\ \E n \in 1 .. TasksToolCalls :
          \E cs \in [1 .. n -> ToolCallChoices] :
             /\ remote_run =
                   [id |-> 2, status |-> "requires_action",
                    tool_calls |->
                       [k \in 1 .. n |->
                           [id |-> k, name |-> cs[k].name,
                            arguments |-> cs[k].arguments]]]
             /\ required =
                   [k \in 1 .. n |->
                       [run_id |-> 2, id |-> k, name |-> cs[k].name]]
    /\ run = remote_run
    /\ submitted = << >>
    /\ invoked = << >>
    /\ retrievals = 1
    /\ SavedNewGame

NextTasks ==
    \/ ToolsDone
    \/ ToolCallRollDice
    \/ Roll(TurnSixes)
    \/ RollDiceOutput
    \/ RollDiceSubmitted
    \/ ToolCallImage
    \/ ImageDummySubmitted
    \/ ToolCallOther
    \/ ServiceStop
    \/ ImageTask

SpecTasks == InitTasks /\ [][NextTasks]_vars

\* The submission the loop awaits with the mutex held is answered or fails,
\* and a task whose lock().await can complete is resumed.
FairSpecTasks ==
    /\ SpecTasks
    /\ WF_vars(RollDiceSubmitted)
    /\ WF_vars(\E i \in 1 .. Len(tasks) : TaskPush(i))

(***************************************************************************)
(* Saving and resuming: run_conversation up to the call of                 *)
(* run_conversation_with_save, and back at its return.                     *)
(***************************************************************************)
\* The assistants ("game cartridges") the account holds.
AssistantIds == {"asst_1", "asst_2"}

\* What the player may type as the name of a save.
SaveNames ==
    { <<"a">>,
      <<"a", ".", "b">>,
      << >>,
      <<"x", "/", "y">> }

\* What the player may type at "Enter the number of the save file to load:".
ChoiceInputs ==
    { <<"0">>, <<"1">>, <<"2">>, <<"3">>, <<" ", "2", "\n">>, <<"+", "1">>,
      <<"x">>, <<"-", "1">> }

JsonExtension == <<"j", "s", "o", "n">>

\* format!("{}{}.json", SAVE_DIR, save_name), relative to SAVE_DIR.
SaveFileName(save_name) == save_name \o <<".">> \o JsonExtension

\* The name leads out of SAVE_DIR, into a directory that does not exist.
HasSeparator(s) == \E k \in 1 .. Len(s) : s[k] = "/"

\* The position of the last "." of a file name, 0 when it has none.
LastDot(f) ==
    LET dots == {k \in 1 .. Len(f) : f[k] = "."}
    IN  IF dots = {} THEN 0
        ELSE CHOOSE k \in dots : \A j \in dots : j <= k

\* path.extension() == Some("json"): the part after the last ".", unless
\* that "." opens the file name.
HasJsonExtension(f) ==
    /\ LastDot(f) > 1
    /\ SubSeq(f, LastDot(f) + 1, Len(f)) = JsonExtension

\* path.file_stem(): the part before the last ".", or the whole file name.
FileStem(f) ==
    IF LastDot(f) > 1 THEN SubSeq(f, 1, LastDot(f) - 1) ELSE f

\* serde_json::to_string(&save): the fields of Save, in order.
SaveToJson(s) ==
    << <<"assistant_id", s.assistant_id>>, <<"thread_id", s.thread_id>> >>

\* The value of the key in a JSON object.
JsonField(j, key) == j[CHOOSE k \in 1 .. Len(j) : j[k][1] = key][2]

\* serde_json::from_str::<Save>(&data)
SaveFromJson(j) ==
    [assistant_id |-> JsonField(j, "assistant_id"),
     thread_id |-> JsonField(j, "thread_id")]

\* The file is left as it is when it exists already.
WriteFileKeep(files, f, data) ==
    IF \E x \in files : x.file = f
    THEN files
    ELSE files \cup {[file |-> f, data |-> data]}

\* File::create(save_file)?; file.write_all(json.as_bytes())?: the file is
\* created, or truncated when it exists, and holds the new contents.
WriteFile(files, f, data) ==
    {x \in files : x.file # f} \cup {[file |-> f, data |-> data]}

\* fs::read_to_string(save_file)
ReadFile(files, f) == (CHOOSE x \in files : x.file = f).data

DigitChars == <<"0", "1", "2", "3", "4", "5", "6", "7", "8", "9">>

IsDigit(c) == \E k \in 1 .. Len(DigitChars) : DigitChars[k] = c

DigitValue(c) == (CHOOSE k \in 1 .. Len(DigitChars) : DigitChars[k] = c) - 1

RECURSIVE DigitsValue(_, _)
DigitsValue(s, acc) ==
    IF s = << >> THEN acc
    ELSE DigitsValue(Tail(s), 10 * acc + DigitValue(Head(s)))

\* Decimal digits only.
ParseDigits(s) ==
    IF s # << >> /\ \A k \in 1 .. Len(s) : IsDigit(s[k])
    THEN Some(DigitsValue(s, 0))
    ELSE None

\* str::parse::<usize>: decimal digits after an optional "+".
ParseUsize(s) ==
    LET digits == IF s # << >> /\ Head(s) = "+" THEN Tail(s) ELSE s
    IN  IF digits # << >> /\ \A k \in 1 .. Len(digits) : IsDigit(digits[k])
        THEN Some(DigitsValue(digits, 0))
        ELSE None

\* The orders in which fs::read_dir may yield the names of the set.
Listings(names) ==
    {l \in [1 .. Cardinality(names) -> names] :
        \A i, j \in 1 .. Cardinality(names) : l[i] = l[j] => i = j}

NoLoad == [some |-> FALSE, name |-> << >>, save |-> NoSession]

IoError == "io error"

NoSaveFilesYet == "No save files available yet."

NoSaveFilesFound == "No save files found."

BackToMainMenu == "Back to main menu."

\* The settings load_settings yields.
LoadedSettings == [language |-> "English", audio_input_enabled |-> TRUE]

\* What run_conversation leaves alone before the conversation proper.
loopVars == <<engineVars, overflow_checks, other, interleaved, user_input,
              run, iterations, tool_idx, pending_tool_outputs, lock, tasks,
              log, turns, remote_run, submitted, invoked, required,
              retrievals>>

\* The main menu, no game started, the save directory empty or missing.
InitMenu ==
    /\ IdleEngine
    /\ overflow_checks = FALSE
    /\ other = NoInvocation
    /\ interleaved = FALSE
    /\ cpc = "menu"
    /\ user_input = << >>
    /\ run = NoRun
    /\ iterations = 0
    /\ tool_idx = 0
    /\ pending_tool_outputs = << >>
    /\ lock = "free"
    /\ tasks = << >>
    /\ log = << >>
    /\ outcome = "none"
    /\ session = NoSession
    /\ settings = NoSettings
    /\ turns = 0
    /\ thread = << >>
    /\ remote_run = NoRun
    /\ submitted = << >>
    /\ invoked = << >>
    /\ required = << >>
    /\ retrievals = 0
    /\ save_dir \in [exists : BOOLEAN, files : {{}}]
    /\ written = << >>
    /\ loaded = NoLoad
    /\ threads_created = 0
    /\ save_files = << >>
    /\ input = << >>
    /\ NoArrowMenu

\* run_conversation(.., is_new_game = true, ..):
\* let language = load_settings()?.language;
\* let assistants = list_assistants().await?; ... choose_assistant(..)
StartNewGame(maxSaves) ==
    /\ cpc = "menu"
    /\ threads_created < maxSaves
    /\ settings' = LoadedSettings
    /\ loaded' = NoLoad
    /\ \/ \E a \in AssistantIds :
             /\ session' = [assistant_id |-> a, thread_id |-> 0]
             /\ cpc' = "thread"
             /\ outcome' = "running"
       \/ /\ outcome' \in {"Ok", ApiError}
          /\ UNCHANGED <<cpc, session>>
    /\ UNCHANGED <<loopVars, thread, save_dir, written, threads_created,
                   save_files, input, arrowVars>>

\* let thread = client.threads().create(..).await?; the new thread has no
\* message and no run.
CreateThread ==
    /\ cpc = "thread"
    /\ \/ /\ threads_created' = threads_created + 1
          /\ session' = [session EXCEPT !.thread_id = threads_created + 1]
          /\ thread' = << >>
          /\ remote_run' = NoRun
          /\ cpc' = "post"
          /\ UNCHANGED outcome
       \/ /\ cpc' = "menu"
          /\ outcome' = ApiError
          /\ UNCHANGED <<threads_created, session, thread, remote_run>>
    /\ UNCHANGED <<engineVars, overflow_checks, other, interleaved,
                   user_input, run, iterations, tool_idx,
                   pending_tool_outputs, lock, tasks, log, turns, submitted,
                   invoked, required, retrievals, settings, save_dir,
                   written, loaded, save_files, input, arrowVars>>

\* client.threads().messages(&thread.id).create(initial_message).await?;
PostInitialMessage ==
    /\ cpc = "post"
    /\ \/ /\ thread' = Append(thread, UserMessage(0))
          /\ cpc' = "save"
          /\ UNCHANGED outcome
       \/ /\ cpc' = "menu"
          /\ outcome' = ApiError
          /\ UNCHANGED thread
    /\ UNCHANGED <<loopVars, settings, session, save_dir, written, loaded,
                   threads_created, save_files, input, arrowVars>>

\* save_conversation(&assistant_id, &thread.id, display)?; and, saved, the
\* call of run_conversation_with_save on that assistant and thread.
SaveConversation ==
    /\ cpc = "save"
    /\ \E save_name \in SaveNames :
          IF HasSeparator(save_name)
          THEN /\ save_dir' = [save_dir EXCEPT !.exists = TRUE]
               /\ cpc' = "menu"
               /\ outcome' = IoError
               /\ UNCHANGED written
          ELSE /\ save_dir' =
                     [exists |-> TRUE,
                      files |-> WriteFile(save_dir.files,
                                          SaveFileName(save_name),
                                          SaveToJson(session))]
               /\ written' = Append(written,
                                    [name |-> save_name, save |-> session])
               /\ cpc' = "conversation"
               /\ UNCHANGED outcome
    /\ UNCHANGED <<loopVars, settings, session, thread, loaded,
                   threads_created, save_files, input, arrowVars>>

\* run_conversation(.., is_new_game = false, ..): load_settings, then
\* load_conversation_from_file up to the listing of the save files.
LoadListing ==
    /\ cpc = "menu"
    /\ settings' = LoadedSettings
    /\ loaded' = NoLoad
    /\ IF ~save_dir.exists
       THEN /\ save_dir' = [save_dir EXCEPT !.exists = TRUE]
            /\ outcome' = NoSaveFilesYet
            /\ UNCHANGED <<cpc, save_files>>
       ELSE LET stems == {FileStem(x.file) :
                             x \in {y \in save_dir.files :
                                       HasJsonExtension(y.file)}}
            IN  /\ UNCHANGED save_dir
                /\ IF stems = {}
                   THEN /\ outcome' = NoSaveFilesFound
                        /\ UNCHANGED <<cpc, save_files>>
                   ELSE /\ save_files' \in Listings(stems)
                        /\ cpc' = "choice"
                        /\ outcome' = "running"
    /\ UNCHANGED <<loopVars, session, thread, written, threads_created,
                   input, arrowVars>>

\* let choice = loop { match input.trim().parse::<usize>() { .. } };
\* the file read and parsed, and run_conversation_with_save called on the
\* assistant and thread of the Save.
LoadChoice ==
    /\ cpc = "choice"
    /\ \E typed \in ChoiceInputs :
          LET num == ParseUsize(Trim(typed))
          IN  /\ input' = typed
              /\ IF num.some /\ num.n > 0 /\ num.n <= Len(save_files)
                 THEN LET save == SaveFromJson(
                                     ReadFile(save_dir.files,
                                              SaveFileName(
                                                 save_files[num.n])))
                      IN  /\ session' = save
                          /\ loaded' = [some |-> TRUE,
                                        name |-> save_files[num.n],
                                        save |-> save]
                          /\ thread' = <<UserMessage(0)>>
                          /\ cpc' = "conversation"
                          /\ UNCHANGED outcome
                 ELSE IF num.some /\ num.n = 0
                 THEN /\ cpc' = "menu"
                      /\ outcome' = BackToMainMenu
                      /\ UNCHANGED <<session, loaded, thread>>
                 ELSE UNCHANGED <<cpc, outcome, session, loaded, thread>>
    /\ UNCHANGED <<loopVars, settings, save_dir, written, threads_created,
                   save_files, arrowVars>>

\* run_conversation_with_save(log_file, &assistant_id, &thread_id, ..)
\* returns, and run_conversation with it, to the main menu.
ConversationReturns ==
    /\ cpc = "conversation"
    /\ cpc' = "menu"
    /\ outcome' \in {"Ok", ApiError}
    /\ UNCHANGED <<loopVars, settings, session, thread, save_dir, written,
                   loaded, threads_created, save_files, input, arrowVars>>

\* The session is saved and the first run is created before it.
HandleNewGameUnsaved ==
    /\ cpc = "save"
    /\ cpc' = "create"
    /\ UNCHANGED <<loopVars, outcome, settings, session, thread, save_dir,
                   written, loaded, threads_created, save_files, input,
                   arrowVars>>

\* if is_new_game { handle_new_game(..).await? }: up to the call of
\* create_and_wait_for_run.
HandleNewGame ==
    /\ cpc = "conversation"
    /\ ~loaded.some
    /\ cpc' = "create"
    /\ UNCHANGED <<loopVars, outcome, settings, session, thread, save_dir,
                   written, loaded, threads_created, save_files, input,
                   arrowVars>>

\* create_and_wait_for_run has returned in handle_new_game, with the run
\* or with an error; the conversation is followed no further and
\* run_conversation returns to the main menu.
NewGameReturns ==
    /\ cpc \in {"tools", "returned"}
    /\ cpc' = "menu"
    /\ IF cpc = "tools"
       THEN outcome' \in {"Ok", ApiError}
       ELSE UNCHANGED outcome
    /\ UNCHANGED <<loopVars, settings, session, thread, save_dir, written,
                   loaded, threads_created, save_files, input, arrowVars>>

NextSave ==
    \/ StartNewGame(MaxSaves)
    \/ CreateThread
    \/ PostInitialMessage
    \/ SaveConversation
    \/ LoadListing
    \/ LoadChoice
    \/ ConversationReturns

SpecSave == InitMenu /\ [][NextSave]_vars

(***************************************************************************)
(* A new game from the main menu to the return of the first                *)
(* create_and_wait_for_run.                                                *)
(***************************************************************************)
NextNewGame ==
    \/ StartNewGame(NewGames)
    \/ CreateThread
    \/ PostInitialMessage
    \/ SaveConversation
    \/ HandleNewGame
    \/ CreateRun
    \/ Poll(TurnPolls)
    \/ NewGameReturns
    \/ ServiceStart
    \/ ServiceComplete
    \/ ServiceFail
    \/ ServiceStop

SpecNewGame == InitMenu /\ [][NextNewGame]_vars

(***************************************************************************)
(* The arrow-key menus of menu.rs: main_menu with change_settings inside   *)
(* it, choose_assistant and load_game_menu.  A running menu is a frame of  *)
(* its locals; what an entry of the main menu runs is followed only when   *)
(* it is another arrow-key menu.                                           *)
(***************************************************************************)
MAIN_MENU_ITEMS ==
    <<"Start a new game", "Load a game", "Create an image", "Settings",
      "Exit">>

SETTINGS_MENU_ITEMS ==
    <<"Change Language", "Change OpenAI API Key", "Toggle Audio Output",
      "Toggle Audio Input", "Toggle Debug Mode", "Back to Main Menu">>

\* The names of n cartridges or of n save files.
EntryNames(n) == [k \in 1 .. n |-> <<"entry", k>>]

\* let mut selected = 0; let menu_items_count = menu_items.len();
MenuFrame(name, menu_items) ==
    [name |-> name,
     selected |-> 0,
     menu_items |-> menu_items,
     menu_items_count |-> Len(menu_items)]

\* menu_items.push("Return to Main Menu".to_string());
AssistantMenu(n) ==
    MenuFrame("choose_assistant", Append(EntryNames(n), "Return to Main Menu"))

LoadGameMenu(n) ==
    MenuFrame("load_game_menu", Append(EntryNames(n), "Return to Main Menu"))

\* The characters a key press may carry.
KeyChars == {"0", "1", "3", "4", "5", "6", "7", "9", "x"}

\* The languages the player may type in the settings.
Languages == {"English", "French"}

\* Up stops at the first entry.
SelectUpClamped(selected, menu_items_count) ==
    IF selected = 0 THEN 0 ELSE selected - 1

\* selected = (selected + menu_items_count - 1) % menu_items_count;
SelectUp(selected, menu_items_count) ==
    (selected + menu_items_count - 1) % menu_items_count

\* selected = (selected + 1) % menu_items_count;
SelectDown(selected, menu_items_count) ==
    (selected + 1) % menu_items_count

\* char::to_digit(10)
ToDigit(c) == IF IsDigit(c) THEN Some(DigitValue(c)) ELSE None

\* u32::checked_sub(1)
CheckedSubOne(d) == IF d >= 1 THEN Some(d - 1) ELSE None

\* The entry a character selects, if any: in main_menu and load_game_menu
\* c.to_digit(10).and_then(|d| d.checked_sub(1)) with index <
\* menu_items_count; in change_settings and choose_assistant
\* digit > 0 && digit <= menu_items_count, index = digit - 1.
CharIndex(name, c, menu_items_count) ==
    LET digit == ToDigit(c)
    IN  IF ~digit.some THEN None
        ELSE IF name \in {"main_menu", "load_game_menu"}
        THEN LET index == CheckedSubOne(digit.n)
             IN  IF index.some /\ index.n < menu_items_count
                 THEN index
                 ELSE None
        ELSE IF digit.n > 0 /\ digit.n <= menu_items_count
        THEN Some(digit.n - 1)
        ELSE None

\* The innermost menu, the one reading the keys.
Top == menus[Len(menus)]

\* The innermost menu returns.
Returns == menus' = SubSeq(menus, 1, Len(menus) - 1)

\* event::read() gave a press of the key.
Read(code) ==
    key_event' = [code |-> code,
                  before |-> Top.selected,
                  previous |-> key_event.code,
                  origin |-> key_event.before]

\* What the arrow-key menus leave alone.
menuFrame == <<engineVars, overflow_checks, other, interleaved, cpc,
               user_input, run, iterations, tool_idx, pending_tool_outputs,
               lock, tasks, log, outcome, session, turns, thread,
               remote_run, submitted, invoked, required, retrievals,
               save_dir, written, loaded, threads_created, save_files,
               input>>

\* One of the menus of menu.rs is entered: main_menu, or choose_assistant
\* on a list of cartridges, or load_game_menu on a directory holding save
\* files.
InitMenus ==
    /\ IdleEngine
    /\ overflow_checks = FALSE
    /\ other = NoInvocation
    /\ interleaved = FALSE
    /\ cpc = "menu"
    /\ user_input = << >>
    /\ run = NoRun
    /\ iterations = 0
    /\ tool_idx = 0
    /\ pending_tool_outputs = << >>
    /\ lock = "free"
    /\ tasks = << >>
    /\ log = << >>
    /\ outcome = "none"
    /\ session = NoSession
    /\ settings = LoadedSettings
    /\ turns = 0
    /\ thread = << >>
    /\ remote_run = NoRun
    /\ submitted = << >>
    /\ invoked = << >>
    /\ required = << >>
    /\ retrievals = 0
    /\ save_dir = [exists |-> TRUE, files |-> {}]
    /\ written = << >>
    /\ loaded = NoLoad
    /\ threads_created = 0
    /\ save_files = << >>
    /\ input = << >>
    /\ \/ menus = <<MenuFrame("main_menu", MAIN_MENU_ITEMS)>>
       \/ \E n \in 0 .. MaxEntries : menus = <<AssistantMenu(n)>>
       \/ \E n \in 1 .. MaxEntries : menus = <<LoadGameMenu(n)>>
    /\ key_event = NoKey

\* handle_main_menu_selection(.., index, ..): a game, a load or an image
\* leaves the menu as it was; "Settings" runs change_settings; "Exit"
\* answers true and the loop breaks; an error of the terminal ends
\* main_menu.
MainMenuSelection(index) ==
    /\ \/ /\ index \in {0, 1, 2}
          /\ UNCHANGED menus
       \/ /\ index = 3
          /\ menus' = Append(menus, MenuFrame("change_settings",
                                           SETTINGS_MENU_ITEMS))
       \/ /\ index = 4
          /\ Returns
       \/ Returns
    /\ UNCHANGED settings

\* handle_settings_selection(settings, display, index): the language is
\* typed, or the key cleared and validated again, or a flag toggled, or the
\* settings saved and the menu left; an error of validate_settings or of
\* the terminal ends change_settings.
SettingsSelection(index) ==
    \/ /\ index = 0
       /\ \/ \E new_language \in Languages :
                settings' = [settings EXCEPT !.language = new_language]
          \/ UNCHANGED settings
       /\ UNCHANGED menus
    \/ /\ index \in {1, 2, 4}
       /\ UNCHANGED <<menus, settings>>
    \/ /\ index = 3
       /\ settings' = [settings EXCEPT
                          !.audio_input_enabled = ~settings.audio_input_enabled]
       /\ UNCHANGED menus
    \/ /\ index = 5
       /\ \/ Returns
          \/ UNCHANGED menus
       /\ UNCHANGED settings
    \/ /\ Returns
       /\ UNCHANGED settings

\* The entry is taken: by the handler of the menu, or, in choose_assistant
\* and load_game_menu, by returning the choice.
Select(index) ==
    IF Top.name = "main_menu" THEN MainMenuSelection(index)
    ELSE IF Top.name = "change_settings" THEN SettingsSelection(index)
    ELSE Returns /\ UNCHANGED settings

\* KeyCode::Up
KeyUp ==
    /\ menus # << >>
    /\ menus' = [menus EXCEPT ![Len(menus)].selected =
                    SelectUp(Top.selected, Top.menu_items_count)]
    /\ Read("Up")
    /\ UNCHANGED <<menuFrame, settings>>

\* KeyCode::Down
KeyDown ==
    /\ menus # << >>
    /\ menus' = [menus EXCEPT ![Len(menus)].selected =
                    SelectDown(Top.selected, Top.menu_items_count)]
    /\ Read("Down")
    /\ UNCHANGED <<menuFrame, settings>>

\* KeyCode::Enter
KeyEnter ==
    /\ menus # << >>
    /\ Select(Top.selected)
    /\ Read("Enter")
    /\ UNCHANGED menuFrame

\* KeyCode::Esc: the loop breaks, change_settings saving the settings.
KeyEsc ==
    /\ menus # << >>
    /\ Returns
    /\ Read("Esc")
    /\ UNCHANGED <<menuFrame, settings>>

\* KeyCode::Char(c)
KeyChar ==
    /\ menus # << >>
    /\ \E c \in KeyChars :
          LET index == CharIndex(Top.name, c, Top.menu_items_count)
          IN  IF index.some
              THEN Select(index.n)
              ELSE UNCHANGED <<menus, settings>>
    /\ Read("Char")
    /\ UNCHANGED menuFrame

\* _ => {}
KeyOther ==
    /\ menus # << >>
    /\ Read("Other")
    /\ UNCHANGED <<menuFrame, menus, settings>>

NextMenus ==
    \/ KeyUp
    \/ KeyDown
    \/ KeyEnter
    \/ KeyEsc
    \/ KeyChar
    \/ KeyOther

SpecMenus == InitMenus /\ [][NextMenus]_vars

(***************************************************************************)
(* A resumed game: main_conversation_loop entered on a thread that an      *)
(* earlier session left, its latest run in whatever state that session     *)
(* left it, followed up to the return of create_and_wait_for_run.          *)
(***************************************************************************)
RunStatuses ==
    {"queued", "in_progress", "requires_action", "completed", "failed",
     "cancelled", "expired"}

\* The run has ended: the service will change its status no more.
TerminalStatuses == {"completed", "failed", "cancelled", "expired"}

\* The tool call a run left requiring action waits for.
LeftToolCall == [id |-> 1, name |-> "roll_dice", arguments |-> Arguments(1, 1)]

\* The latest run of the thread as the earlier session left it, or none.
LeftRuns ==
    {NoRun}
       \cup {[id |-> 1, status |-> st, tool_calls |-> << >>] :
                st \in RunStatuses \ {"requires_action"}}
       \cup {[id |-> 1, status |-> "requires_action",
              tool_calls |-> <<LeftToolCall>>]}

InitResumed ==
    /\ IdleEngine
    /\ overflow_checks = FALSE
    /\ other = NoInvocation
    /\ interleaved = FALSE
    /\ cpc = "input"
    /\ user_input = << >>
    /\ run = NoRun
    /\ iterations = 0
    /\ tool_idx = 0
    /\ pending_tool_outputs = << >>
    /\ lock = "free"
    /\ tasks = << >>
    /\ log = << >>
    /\ outcome = "running"
    /\ session = FirstSession
    /\ settings = [language |-> "English", audio_input_enabled |-> TRUE]
    /\ turns = 0
    /\ remote_run \in LeftRuns
    /\ thread = IF remote_run # NoRun /\ remote_run.status = "completed"
                THEN <<UserMessage(0), AssistantMessage(0, TRUE)>>
                ELSE <<UserMessage(0)>>
    /\ submitted = << >>
    /\ invoked = << >>
    /\ required = IF remote_run # NoRun
                     /\ remote_run.status = "requires_action"
                  THEN <<[run_id |-> 1, id |-> LeftToolCall.id,
                          name |-> LeftToolCall.name]>>
                  ELSE << >>
    /\ retrievals = 0
    /\ save_dir =
          [exists |-> TRUE,
           files |-> {[file |-> SaveFileName(<<"a">>),
                       data |-> SaveToJson(FirstSession)]}]
    /\ written = <<[name |-> <<"a">>, save |-> FirstSession]>>
    /\ loaded = [some |-> TRUE, name |-> <<"a">>, save |-> FirstSession]
    /\ threads_created = 1
    /\ save_files = << <<"a">> >>
    /\ input = <<"1">>
    /\ NoArrowMenu

NextResumed ==
    \/ GetUserInput
    \/ ExitOrSend
    \/ CheckNoActiveRun
    \/ CreateRun
    \/ Poll(TurnPolls)
    \/ ConversationEnd
    \/ ServiceStart
    \/ ServiceComplete
    \/ ServiceFail
    \/ ServiceRequire(ResumedToolCalls)
    \/ ServiceStop

SpecResumed == InitResumed /\ [][NextResumed]_vars

\* The task that runs the loop is resumed whenever the call or the sleep it
\* awaits is over: a step of the conversation whose remote call answers is
\* eventually taken. That the remote call fails is never forced.
FairSpecResumed ==
    SpecResumed /\ WF_vars(CheckNoActiveRun /\ outcome' # ApiError)

(***************************************************************************)
(* Properties of the returned RollResult.                                  *)
(***************************************************************************)
\* C1: whenever the roll has returned, is_successful is exactly
\* successes >= threshold, for every pool, threshold and drawn faces.
C1_IsSuccessfulIffThresholdMet ==
    Returned => (is_successful <=> successes >= threshold)

\* C1 witness: a returned roll that met a positive threshold.
C1_Witness ==
    Returned /\ threshold > 0 /\ successes = threshold /\ is_successful

\* C2: whenever the roll has returned, critical_glitch is true exactly when
\* glitch is true and successes is 0; so critical_glitch implies glitch.
C2_CriticalGlitchIffGlitchAndNoSuccess ==
    Returned =>
        /\ critical_glitch <=> (glitch /\ successes = 0)
        /\ critical_glitch => glitch

\* C2 witness: a returned roll with a glitch that is not critical because a
\* success was scored.
C2_Witness ==
    Returned /\ glitch /\ successes > 0 /\ ~critical_glitch

\* C3: for a pool of at least one die, glitch is true iff the ones drawn
\* (at most one per die, a 1 closing a chain of sixes included) are at least
\* half of dice_number.
C3_GlitchIffHalfOnes ==
    (Returned /\ dice_number > 0) =>
        /\ ones = NumOnes(faces)
        /\ glitch <=> (2 * NumOnes(faces) >= dice_number)

\* C3 witness: a pool of three with only one 1, drawn on the reroll of a six:
\* below half, no glitch.
C3_Witness ==
    /\ Returned
    /\ dice_number = 3
    /\ NumOnes(faces) = 1
    /\ \E k \in 2 .. Len(faces) : faces[k] = 1 /\ faces[k - 1] = 6
    /\ ~glitch

\* C4: with no dice the roll returns (no division error) with glitch and
\* critical_glitch false, both counters 0 and is_successful = (threshold = 0).
C4_ZeroDice ==
    dice_number = 0 =>
        /\ pc # "panicked"
        /\ Returned =>
              /\ ~glitch
              /\ ~critical_glitch
              /\ successes = 0
              /\ critical_successes = 0
              /\ is_successful <=> (threshold = 0)

\* C4 witness: a returned roll of no dice against a positive threshold.
C4_Witness ==
    Returned /\ dice_number = 0 /\ threshold > 0 /\ ~is_successful

\* C5: the returned critical_successes never exceeds the returned successes.
C5_CriticalAtMostSuccesses ==
    Returned => critical_successes <= successes

\* C6: the roll never panics and the returned 8-bit counters hold the true
\* counts of the drawn faces (no overflow, no wrap-around).
C6_TotalAndExact ==
    /\ pc # "panicked"
    /\ Returned =>
          /\ successes = NumSuccessFaces(faces)
          /\ critical_successes = NumSixes(faces)

\* C7: the returned successes is the number of faces 5 or 6 drawn over all
\* dice, rerolls included; faces 1 to 4 add nothing.
C7_SuccessesCountFivesAndSixes ==
    Returned => successes = NumSuccessFaces(faces)

\* C8: the returned critical_successes is the number of sixes drawn, every
\* six of a chain counted; one die drawing 6,6,6,2 returns 3 and 3.
C8_CriticalCountsEverySix ==
    Returned =>
        /\ critical_successes = NumSixes(faces)
        /\ (dice_number = 1 /\ faces = <<6, 6, 6, 2>>) =>
              (successes = 3 /\ critical_successes = 3)

C10_Example ==
    (Returned /\ dice_number = 5 /\ faces = <<6, 2, 5, 1, 1, 1>>) =>
        /\ successes = 2
        /\ critical_successes = 1
        /\ glitch
        /\ ~critical_glitch
        /\ threshold = 2 => is_successful
        /\ threshold = 3 => ~is_successful

\* C10 witness: the example roll has returned, against threshold 3.
C10_Witness ==
    /\ Returned
    /\ dice_number = 5
    /\ faces = <<6, 2, 5, 1, 1, 1>>
    /\ threshold = 3

\* C11: a die is rerolled exactly when its face is 6 and stops at its first
\* other face: while the roll runs, every face but the one under examination
\* is either a six or the face that closed a die, and on return the faces
\* drawn number dice_number plus the sixes drawn, with ones, fives and
\* nothing recorded for the closing faces.
C11_DrawsAreDicePlusSixes ==
    /\ pc = "loop" => Len(faces) = rolled + NumSixes(SubSeq(faces, 1, Len(faces) - 1))
    /\ pc = "for" => Len(faces) = rolled + NumSixes(faces)
    /\ Returned =>
          /\ Len(faces) = dice_number + NumSixes(faces)
          /\ ones = NumOnes(faces)
          /\ faces # << >> => faces[Len(faces)] # 6

\* C11 witness: a returned roll of two dice, the first rerolled twice.
C11_Witness ==
    /\ Returned
    /\ dice_number = 2
    /\ Len(faces) = 4
    /\ faces[1] = 6 /\ faces[2] = 6 /\ faces[3] = 5

\* C12: chains of sixes being finite, every invocation runs on until it has
\* returned with exactly dice_number dice resolved: it stops in no other
\* state.
C12_StopsOnlyWhenAllDiceResolved ==
    (Returned /\ rolled = dice_number) \/ ENABLED NextWide

\* C13: two invocations with the same dice_number, the same threshold and the
\* same faces return RollResults equal in all five fields.
C13_SameInputsSameResult ==
    (/\ Returned
     /\ other.pc = "done"
     /\ other.dice_number = dice_number
     /\ other.threshold = threshold
     /\ other.faces = faces) => OtherResult = RollResult

\* C13 witness: two returned invocations of one die handed the same two
\* faces.
C13_Witness ==
    /\ Returned
    /\ other.pc = "done"
    /\ other.dice_number = dice_number
    /\ other.threshold = threshold
    /\ other.faces = faces
    /\ faces = <<6, 5>>

\* C14: under every interleaving of the steps of two invocations, each
\* returns the RollResult it returns when run alone on its own parameters and
\* faces.
C14_InterleavedAsAlone ==
    /\ Returned => RollResult = RollAlone(dice_number, threshold, faces)
    /\ other.pc = "done" =>
          OtherResult = RollAlone(other.dice_number, other.threshold,
                                  other.faces)

\* C14 witness: both invocations have returned, with different faces, after
\* a switch that found both of them in mid-run.
C14_Witness ==
    /\ Returned
    /\ other.pc = "done"
    /\ interleaved
    /\ NumSuccessFaces(faces) # NumSuccessFaces(other.faces)

(***************************************************************************)
(* Properties of the conversation around the engine.                       *)
(***************************************************************************)
\* A step taken by shadowrun_dice_roll itself.
RollStep == MidRun(pc) /\ engineVars' # engineVars

\* C15: a step of shadowrun_dice_roll changes nothing but the function's own
\* parameters and locals: the session identifiers, the settings, the
\* thread's messages and the pending tool-output vector are as before.
C15_RollHasNoSideEffect ==
    [][RollStep => UNCHANGED <<session, settings, thread,
                               pending_tool_outputs>>]_vars

\* C15 witness: a roll is under way, a face drawn, the thread holding the
\* turn's message, while an image task is about to push onto the pending
\* vector.
C15_Witness ==
    /\ cpc = "rolling"
    /\ pc = "loop"
    /\ faces # << >>
    /\ thread[Len(thread)] = UserMessage(turns)
    /\ \E i \in 1 .. Len(tasks) : tasks[i].state \in {"ok", "err"}

\* The invocations of the engine made for the tool call of id c.
InvocationsFor(c) == {j \in 1 .. Len(invoked) : invoked[j].tool_call_id = c}

\* The tool outputs the run of id r received for the tool call of id c.
SubmissionsFor(r, c) ==
    {j \in 1 .. Len(submitted) :
        submitted[j].run_id = r /\ submitted[j].tool_call_id = c}

\* The turn's wait loop ends: its last retrieval showed the run completed or
\* requiring action, and the reply is fetched next.
WaitEnds == cpc = "wait" /\ cpc' = "latest"

\* Every tool call the loop's run has required so far that is named roll_dice
\* had the engine invoked once and one output submitted to that run, with the
\* call's id and the serialized result of that roll; no other tool call had
\* the engine invoked.
RolledOncePerRollDice ==
    \A k \in 1 .. Len(required) :
        required[k].run_id = run.id =>
            IF required[k].name = "roll_dice"
            THEN /\ Cardinality(InvocationsFor(required[k].id)) = 1
                 /\ Cardinality(SubmissionsFor(run.id, required[k].id)) = 1
                 /\ \A i \in InvocationsFor(required[k].id),
                       j \in SubmissionsFor(run.id, required[k].id) :
                        /\ invoked[i].returned
                        /\ submitted[j].output =
                              Json(ToJsonString(invoked[i].result))
            ELSE InvocationsFor(required[k].id) = {}

\* C16: in a turn whose run requires action, when the turn's wait loop ends
\* every roll_dice tool call the run has required had the engine invoked
\* exactly once and exactly one tool output submitted to that same run, with
\* the call's id and the JSON serialization of that roll's result, and no
\* other tool call had the engine invoked.
C16_EachRollDiceCallRolledOnce ==
    [][WaitEnds => RolledOncePerRollDice]_vars

\* C19 as stated: the dice_number and the threshold every invocation of the
\* engine is passed equal the non-negative integers its tool call's payload
\* carries.
C19_EngineGetsPayloadValues ==
    \A j \in 1 .. Len(invoked) :
        /\ AsU64(invoked[j].arguments.dice_number).some =>
              invoked[j].dice_number = invoked[j].arguments.dice_number.n
        /\ AsU64(invoked[j].arguments.threshold).some =>
              invoked[j].threshold = invoked[j].arguments.threshold.n

\* The inputs of RawInputs that are "exit" once trimmed and case-folded.
\* The saves written under the name, by their positions in the history.
WrittenUnder(name) == {j \in 1 .. Len(written) : written[j].name = name}

ExitInputs == {<<"e", "x", "i", "t">>, <<" ", "E", "x", "I", "t", "\n">>}

C20_WaitIsCapped ==
    /\ [](/\ retrievals <= max_iterations
          /\ cpc = "poll" => retrievals = iterations
          /\ outcome = RunExceeded =>
                /\ retrievals = max_iterations
                /\ run.status = "queued")
    /\ (cpc \in {"create", "poll"}) ~> (cpc \in {"tools", "returned"})

\* C20 witness: the wait gave up after 100 retrievals, the run cancelled or
\* expired meanwhile.
C20_Witness ==
    /\ outcome = RunExceeded
    /\ retrievals = max_iterations
    /\ remote_run.status \in {"cancelled", "expired"}

\* C21: create_and_wait_for_run returns Ok(run) only on a retrieval that
\* observed Completed or RequiresAction, and the run it returns is the run
\* object of that retrieval, tool calls included; a retrieval of a failed
\* run makes it return, with the error "Run failed" (or the error of the
\* retrieval itself), and "Run failed" is returned on no other status; once
\* it has returned an error it retrieves no more.
C21_ReturnsObservedRun ==
    [][/\ (cpc = "poll" /\ cpc' = "tools") =>
              /\ remote_run.status \in {"completed", "requires_action"}
              /\ run' = remote_run
              /\ retrievals' = retrievals + 1
       /\ (cpc = "poll" /\ remote_run.status = "failed"
              /\ retrievals' # retrievals) =>
              /\ cpc' = "returned"
              /\ outcome' \in {RunFailed, ApiError}
       /\ (cpc = "poll" /\ outcome' = RunFailed) =>
              remote_run.status = "failed"
       /\ cpc = "returned" => retrievals' = retrievals]_vars

\* The run was returned after a retrieval that was not decisive, with the
\* tool calls the service had just reported.
C21_Witness ==
    /\ cpc = "tools"
    /\ retrievals >= 2
    /\ run.status = "requires_action"
    /\ run.tool_calls # << >>
    /\ run = remote_run

\* C22: in main_conversation_loop a run is created only when the thread has
\* no run or its latest run is completed, never while it is queued, in
\* progress or requiring action.
C22_RunCreatedOnlyWhenNoneActive ==
    [][remote_run'.id # remote_run.id =>
          /\ cpc = "create"
          /\ remote_run = NoRun \/ remote_run.status = "completed"
          /\ remote_run'.status = "queued"]_vars

\* The run the earlier session left was still active when the player's
\* message was posted; it completed, and only then was the new run created.
C22_Witness ==
    /\ cpc = "poll"
    /\ remote_run.id = 2
    /\ thread = <<UserMessage(0), UserMessage(1), AssistantMessage(1, TRUE)>>

\* C23: the loop that waits for no active run is eventually left whenever
\* the thread's latest run is in a terminal state: completed, failed,
\* cancelled or expired.
C23_NoActiveLoopExits ==
    (cpc = "no_active"
        /\ remote_run # NoRun /\ remote_run.status \in TerminalStatuses)
       ~> (cpc # "no_active")

\* C24: once the tool calls of the turn are handled, the turn's wait loop
\* eventually ends whenever the run is completed, failed, requiring action,
\* cancelled or expired.
C24_WaitLoopEnds ==
    (cpc = "wait"
        /\ remote_run.status \in
              {"completed", "failed", "requires_action", "cancelled",
               "expired"})
       ~> (cpc # "wait")

\* A step of a background image task.
TaskStep == Len(tasks') = Len(tasks) /\ tasks' # tasks

\* What a background image task ends with.
TaskResults == {Text("image_path"), Text("Failed to generate image")}

\* Every generate_character_image call required of the current run has
\* exactly one submission, the placeholder.
PlaceholderOncePerImageCall ==
    \A k \in 1 .. Len(required) :
       (required[k].run_id = run.id
           /\ required[k].name = "generate_character_image") =>
          /\ Cardinality(SubmissionsFor(run.id, required[k].id)) = 1
          /\ \A j \in SubmissionsFor(run.id, required[k].id) :
                submitted[j].output = Text("Tool started")

\* C25: for each generate_character_image tool call of the turn's run
\* exactly one tool output is submitted, the placeholder "Tool started";
\* the result of the background task is appended to the pending list only
\* and never submitted, and no step of a task, a failed generation
\* included, ends the turn.
C25_ImageCallGetsPlaceholderOnly ==
    [][/\ WaitEnds => PlaceholderOncePerImageCall
       /\ \A j \in 1 .. Len(submitted') :
             submitted'[j].output \notin TaskResults
       /\ TaskStep => UNCHANGED <<cpc, outcome, submitted, remote_run>>]_vars

\* The entries of the pending vector that carry the tool call id.
PendingFor(c) ==
    {j \in 1 .. Len(pending_tool_outputs) :
        pending_tool_outputs[j].tool_call_id = c}

\* The roll_dice calls handled: the engine has returned their result.
HandledRolls == {j \in 1 .. Len(invoked) : invoked[j].returned}

AllTasksFinished == \A i \in 1 .. Len(tasks) : tasks[i].state = "finished"

\* C26: under every interleaving of the loop and the background tasks, an
\* append to the pending vector is made with the mutex free beforehand and
\* keeps what the vector held; once all tasks have finished the vector
\* holds exactly one entry per handled roll_dice call, the JSON of its
\* result, and one per image task, its result, each under its own tool
\* call id; and a task waiting for the mutex eventually pushes its entry.
C26_PendingVectorIsConsistent ==
    /\ [][pending_tool_outputs' # pending_tool_outputs =>
             /\ lock = "free"
             /\ Len(pending_tool_outputs') = Len(pending_tool_outputs) + 1
             /\ SubSeq(pending_tool_outputs', 1, Len(pending_tool_outputs))
                   = pending_tool_outputs]_vars
    /\ [](AllTasksFinished =>
             /\ Len(pending_tool_outputs)
                   = Cardinality(HandledRolls) + Len(tasks)
             /\ \A j \in HandledRolls :
                   /\ Cardinality(PendingFor(invoked[j].tool_call_id)) = 1
                   /\ \A k \in PendingFor(invoked[j].tool_call_id) :
                         pending_tool_outputs[k].output
                            = Json(ToJsonString(invoked[j].result))
             /\ \A i \in 1 .. Len(tasks) :
                   /\ Cardinality(PendingFor(tasks[i].tool_call_id)) = 1
                   /\ \A k \in PendingFor(tasks[i].tool_call_id) :
                         pending_tool_outputs[k].output \in TaskResults)
    /\ \A i \in 1 .. TasksToolCalls :
          (i <= Len(tasks) /\ tasks[i].state \in {"ok", "err"})
             ~> (i <= Len(tasks) /\ tasks[i].state = "finished")

\* The image call came first and the roll_dice call second; the entry of
\* the roll is in the vector before the entry of the image task.
C26_Witness ==
    /\ AllTasksFinished
    /\ Len(tasks) = 1
    /\ tasks[1].tool_call_id = 1
    /\ Len(invoked) = 1
    /\ invoked[1].returned
    /\ Len(pending_tool_outputs) = 2
    /\ pending_tool_outputs[1].tool_call_id = 2
    /\ pending_tool_outputs[2].tool_call_id = 1

\* A line is written to the log under the sender "Game Master".
GameMasterLogged ==
    /\ Len(log') = Len(log) + 1
    /\ log'[Len(log')].line = "message"
    /\ log'[Len(log')].sender = "Game Master"

\* C27: the message logged as "Game Master" at the end of a turn is one the
\* assistant authored in answer to that turn's input, never the player's
\* own message.
C27_GameMasterLineIsAssistants ==
    [][GameMasterLogged =>
          /\ log'[Len(log')].message.role = "assistant"
          /\ log'[Len(log')].message.turn = turns]_vars

\* The player's message is posted to the thread.
UserMessagePosted ==
    /\ Len(thread') = Len(thread) + 1
    /\ thread'[Len(thread')].role = "user"

\* C28: get_user_input never returns an empty or whitespace-only string,
\* and no message is posted to the thread for such an input.
C28_InputIsNeverBlank ==
    /\ [](cpc = "got_input" => Trim(user_input) # << >>)
    /\ [][UserMessagePosted => Trim(user_input) # << >>]_vars

\* The input was returned and its message posted.
C28_Witness ==
    /\ cpc = "no_active"
    /\ Trim(user_input) # << >>
    /\ thread[Len(thread)] = UserMessage(1)

\* The number each input of the choice loop stands for, -1 for none.
ChoiceNumber(typed) ==
    CASE typed = <<"0">> -> 0
      [] typed = <<"1">> -> 1
      [] typed = <<"+", "1">> -> 1
      [] typed = <<"2">> -> 2
      [] typed = <<" ", "2", "\n">> -> 2
      [] typed = <<"3">> -> 3
      [] OTHER -> -1

\* The Save held by the file of the listed name.
SaveOnDisk(name, save) ==
    \E x \in save_dir.files :
       /\ x.file = name \o <<".", "j", "s", "o", "n">>
       /\ x.data = << <<"assistant_id", save.assistant_id>>,
                      <<"thread_id", save.thread_id>> >>

InitialMessagePosted == thread' = Append(thread, UserMessage(0))

\* save_conversation writes the session.
SessionSaved == Len(written') = Len(written) + 1

\* A run is created on the thread.
RunCreated == remote_run' # NoRun /\ remote_run'.id # remote_run.id

\* C30: in a new game the thread is created, then the initial message is
\* posted, then the session is saved, then the first run is created: the
\* run is created only once the save record of the session is on disk,
\* and when listing, thread creation, posting or saving fails the game
\* goes back to the menu with no run created.
C30_NewGameOrder ==
    [][/\ InitialMessagePosted =>
             /\ cpc = "post"
             /\ threads_created >= 1
             /\ session.thread_id = threads_created
             /\ thread = << >>
       /\ SessionSaved =>
             /\ cpc = "save"
             /\ thread = <<UserMessage(0)>>
             /\ written'[Len(written')].save = session
             /\ session.thread_id = threads_created
             /\ remote_run = NoRun
       /\ RunCreated =>
             /\ cpc = "create"
             /\ remote_run = NoRun
             /\ written # << >>
             /\ written[Len(written)].save = session
             /\ SaveOnDisk(written[Len(written)].name, session)
             /\ thread = <<UserMessage(0)>>
       /\ cpc' = "create" => cpc = "conversation"
       /\ cpc' = "conversation" => cpc = "save" /\ SessionSaved
       /\ (cpc \in {"thread", "post", "save"} /\ cpc' = "menu") =>
             /\ outcome' \in {ApiError, IoError}
             /\ UNCHANGED <<remote_run, written>>
       /\ (cpc = "menu" /\ cpc' = "menu") => ~RunCreated]_vars

\* The first run of the new game exists, its session saved under the name
\* "a.b".
C30_Witness ==
    /\ cpc = "poll"
    /\ remote_run.id = 1
    /\ remote_run.status = "in_progress"
    /\ written = <<[name |-> <<"a", ".", "b">>, save |-> session]>>
    /\ session.thread_id = 1

\* C31: in every arrow-key menu the selected index is one of
\* 0 .. menu_items_count - 1 whatever keys were pressed; after Up the index
\* is menu_items_count - 1 when it was 0 and one less otherwise; after Down
\* it is 0 when it was menu_items_count - 1 and one more otherwise; and
\* after Up followed by Down it is what it was before the Up.
C31_SelectedStaysInMenu ==
    /\ \A i \in 1 .. Len(menus) :
          /\ menus[i].menu_items_count >= 1
          /\ menus[i].selected \in 0 .. menus[i].menu_items_count - 1
    /\ key_event.code \in {"Up", "Down"} => menus # << >>
    /\ (menus # << >> /\ key_event.code = "Up") =>
          Top.selected = IF key_event.before = 0
                         THEN Top.menu_items_count - 1
                         ELSE key_event.before - 1
    /\ (menus # << >> /\ key_event.code = "Down") =>
          Top.selected = IF key_event.before = Top.menu_items_count - 1
                         THEN 0
                         ELSE key_event.before + 1
    /\ (menus # << >> /\ key_event.code = "Down"
                      /\ key_event.previous = "Up") =>
          Top.selected = key_event.origin

\* In the settings menu, entered from "Settings" of the main menu, Up from
\* the first entry went to the last and Down came back to the first.
C31_Witness ==
    /\ Len(menus) = 2
    /\ menus[1].name = "main_menu"
    /\ menus[1].selected = 3
    /\ Top.name = "change_settings"
    /\ key_event = [code |-> "Down", before |-> 5, previous |-> "Up",
                    origin |-> 0]
    /\ Top.selected = 0

====
